---------------------------- MODULE Spec2Model ----------------------------
(***************************************************************************)
(* A model of paper_reader: the content store (utils.py), the completion   *)
(* gateway (openai_utils.py), the article pipeline (article_processor.py), *)
(* the batch driver (main.py), the tag aggregator (tag_manager.py) and the *)
(* pure helpers slugify and cosine_similarity.                             *)
(*                                                                         *)
(* Text is kept as sequences of characters where the code transforms it    *)
(* (slugify) and as opaque strings where the code only stores it.          *)
(***************************************************************************)
EXTENDS Integers, Sequences, FiniteSets, TLC

VARIABLES
    cfg,        \* the configuration read from the environment (config.py)
    fsRoots,    \* the directories vault/docs and vault/tags that exist
    fsDirs,     \* the article and tag directories that exist
    fsFiles,    \* the files on disk: path -> content
    storeRes,   \* the outcome of the last content-store call
    task,       \* one aprocess_article coroutine per discovered paper
    mainPc,     \* where main() is
    mainRes,    \* how main() ended
    faults,     \* the steps of this run in which the provider failed
    sem,        \* _value of the module-level asyncio.Semaphore
    waiters,    \* its queue of suspended acquirers, the first to come first
    caller,     \* one generate_completion caller per gateway task
    loopOwner,  \* the task that blocks the event loop in a synchronous call
    probe,      \* the last call of a pure helper: its arguments and result
    articles,   \* the records handed to process_all_tags_iteratively
    tagStore,   \* _GLOBAL_TAG_STORE: tag slug -> TagInfo
    agg,        \* where process_all_tags_iteratively is, and what it has called
    usage,      \* TOTAL_CALL_COUNTER and the TOTAL_TOKENS_* dictionaries
    reporter    \* main()'s print_consumption_task

vars == <<cfg, fsRoots, fsDirs, fsFiles, storeRes, task, mainPc, mainRes,
          faults, sem, waiters, caller, loopOwner, probe, articles, tagStore, agg,
          usage, reporter>>

fsVars   == <<fsRoots, fsDirs, fsFiles>>
gateVars == <<sem, waiters, caller, loopOwner>>
pipeVars == <<task, mainPc, mainRes, faults>>
tagVars  == <<articles, tagStore, agg>>

-----------------------------------------------------------------------------
(* Characters and slugify                                                  *)

LowerLetters == {"a", "b"}
UpperLetters == {"A", "B"}
Spaces       == {" "}
Chars        == LowerLetters \cup UpperLetters \cup Spaces \cup {"-", "_", "!", ","}

Lower(c) == IF c = "A" THEN "a" ELSE IF c = "B" THEN "b" ELSE c
Upper(c) == IF c = "a" THEN "A" ELSE IF c = "b" THEN "B" ELSE c

IsAlpha(c) == c \in LowerLetters \cup UpperLetters
\* \w of Python's re: letters, digits and the underscore
IsWord(c)  == IsAlpha(c) \/ c = "_"

MapSeq(s, F(_)) == [i \in 1..Len(s) |-> F(s[i])]

\* every whitespace character, not every run, turned into a hyphen
SubSpaceRuns_EachSpace(s) ==
    [i \in 1..Len(s) |-> IF s[i] \in Spaces THEN "-" ELSE s[i]]

\* re.sub(r"\s+", "-", text): every maximal run of whitespace becomes one hyphen
RECURSIVE SubSpaceRuns(_)
SubSpaceRuns(s) ==
    IF s = <<>> THEN <<>>
    ELSE IF Head(s) \in Spaces
         THEN IF Len(s) > 1 /\ s[2] \in Spaces
              THEN SubSpaceRuns(Tail(s))
              ELSE <<"-">> \o SubSpaceRuns(Tail(s))
         ELSE <<Head(s)>> \o SubSpaceRuns(Tail(s))

RECURSIVE LStrip(_, _)
LStrip(s, c) == IF s # <<>> /\ Head(s) = c THEN LStrip(Tail(s), c) ELSE s

RECURSIVE RStrip(_, _)
RStrip(s, c) ==
    IF s # <<>> /\ s[Len(s)] = c THEN RStrip(SubSeq(s, 1, Len(s) - 1), c) ELSE s

Strip(s, c) == RStrip(LStrip(s, c), c)

Untitled == <<"u", "n", "t", "i", "t", "l", "e", "d">>

SlugKeep(c) == IsWord(c) \/ c = "-"

\* re.sub(r"[^\w\-]", "", text)
RECURSIVE RemoveNonSlugChars(_)
RemoveNonSlugChars(s) ==
    IF s = <<>> THEN <<>>
    ELSE IF SlugKeep(Head(s)) THEN <<Head(s)>> \o RemoveNonSlugChars(Tail(s))
         ELSE RemoveNonSlugChars(Tail(s))

slugify(text) ==
    LET lowered  == MapSeq(text, Lower)
        hyphened == SubSpaceRuns(lowered)
        kept     == RemoveNonSlugChars(hyphened)
        stripped == Strip(kept, "-")
    IN  IF stripped # <<>> THEN stripped ELSE Untitled

\* str.title(): a letter that follows a non-letter is upper-cased, any other
\* letter lower-cased
Title(s) ==
    [i \in 1..Len(s) |->
        IF i = 1 \/ ~IsAlpha(s[i - 1]) THEN Upper(s[i]) ELSE Lower(s[i])]

Replace(s, from, to) == [i \in 1..Len(s) |-> IF s[i] = from THEN to ELSE s[i]]

\* item.replace("-", " ").replace("_", " ").title()
human_readable_slugify(text) == Title(Replace(Replace(text, "-", " "), "_", " "))

-----------------------------------------------------------------------------
(* The file system and the content store                                   *)

DOCS_DIR == "docs"
TAGS_DIR == "tags"

EXTRACTED_MD_FILE        == "extracted.md"
SUMMARIZED_MD_FILE       == "summarized.md"
SHORT_SUMMARIZED_MD_FILE == "short_summarized.md"
TLDR_MD_FILE             == "tldr.md"
TAGS_JSON_FILE           == "tags.json"

\* filename_md.replace(".md", ".npz")
NpzName(f) ==
    CASE f = "extracted.md"        -> "extracted.npz"
      [] f = "summarized.md"       -> "summarized.npz"
      [] f = "short_summarized.md" -> "short_summarized.npz"
      [] f = "tldr.md"             -> "tldr.npz"
      [] f = "description.md"      -> "description.npz"
      [] f = "survey.md"           -> "survey.npz"
      [] OTHER                     -> f

None    == "None"
Corrupt == "corrupt"

Dir(root, name)   == [root |-> root, name |-> name]
File(dir, f)      == [root |-> dir.root, name |-> dir.name, file |-> f]
\* os.path.dirname of a path without a trailing separator: the parent
Dirname(dir)      == dir.root

FS(roots, dirs, files) == [roots |-> roots, dirs |-> dirs, files |-> files]

Exists(fs, dir, f) == File(dir, f) \in DOMAIN fs.files

WriteFile(fs, dir, f, data) ==
    [fs EXCEPT !.files =
        [p \in DOMAIN fs.files \cup {File(dir, f)} |->
            IF p = File(dir, f) THEN data ELSE fs.files[p]]]

\* os.makedirs(path, exist_ok=True)
ensure_dir_exists(fs, dir) ==
    [fs EXCEPT !.roots = @ \cup {dir.root}, !.dirs = @ \cup {dir}]

ensure_root_exists(fs, root) == [fs EXCEPT !.roots = @ \cup {root}]

NoContent == [some |-> FALSE, content |-> "", vector |-> None]
Content(text, vec) == [some |-> TRUE, content |-> text, vector |-> vec]

Raised(fs)   == [fs |-> fs, raised |-> TRUE]
Returned(fs) == [fs |-> fs, raised |-> FALSE]


save_text_and_embedding(fs, base_path, filename_md, text_content, embedding_vector) ==
    LET made == ensure_root_exists(fs, Dirname(base_path))
    IN  IF base_path \notin made.dirs
        THEN Raised(made)          \* open(md_path, "w"): FileNotFoundError
        ELSE LET md == WriteFile(made, base_path, filename_md, text_content)
             IN  IF embedding_vector # None
                 THEN Returned(WriteFile(md, base_path, NpzName(filename_md),
                                         embedding_vector))
                 ELSE Returned(md)

\* the load with a missing or unreadable embedding file taken for a cache miss
load_text_and_embedding_AllOrNothing(fs, base_path, filename_md) ==
    LET npz == File(base_path, NpzName(filename_md))
    IN  IF /\ Exists(fs, base_path, filename_md)
           /\ npz \in DOMAIN fs.files
           /\ fs.files[npz] # Corrupt
        THEN Content(fs.files[File(base_path, filename_md)], fs.files[npz])
        ELSE NoContent

load_text_and_embedding(fs, base_path, filename_md) ==
    IF ~Exists(fs, base_path, filename_md)
    THEN NoContent
    ELSE LET text_content == fs.files[File(base_path, filename_md)]
             npz          == File(base_path, NpzName(filename_md))
         IN  IF npz \in DOMAIN fs.files /\ fs.files[npz] # Corrupt
             THEN Content(text_content, fs.files[npz])
             ELSE Content(text_content, None)

CurFS == FS(fsRoots, fsDirs, fsFiles)

\* a disk together with the order in which it lists the entries of each
\* root: order[root] is what os.listdir(root) gives
Listed(fs, order) ==
    [roots |-> fs.roots, dirs |-> fs.dirs, files |-> fs.files, order |-> order]

SetFS(fs) ==
    /\ fsRoots' = fs.roots
    /\ fsDirs' = fs.dirs
    /\ fsFiles' = fs.files

EmptyFiles == [p \in {} |-> ""]

-----------------------------------------------------------------------------
(* cosine_similarity (vector_store.py)                                     *)

\* A float is kept as the exact quotient it stands for: num / sqrt(den2).
\* divided tells whether the division of line 23 was evaluated.
Float(num, den2, divided) == [num |-> num, den2 |-> den2, divided |-> divided]
ZeroFloat == Float(0, 1, FALSE)                     \* the literal 0.0
NaN       == [num |-> 0, den2 |-> 0, divided |-> TRUE]

RECURSIVE Dot(_, _)
\* np.dot of two vectors of the same length
Dot(vec1, vec2) ==
    IF vec1 = <<>> THEN 0
    ELSE Head(vec1) * Head(vec2) + Dot(Tail(vec1), Tail(vec2))

\* np.linalg.norm(vec) squared; the norm is 0 exactly when this is 0
NormSq(vec) == Dot(vec, vec)

\* an Optional[np.ndarray] argument: None, or an array
NoVec      == [some |-> FALSE, arr |-> <<>>]
Array(arr) == [some |-> TRUE, arr |-> arr]

\* the function without the test of line 21
cosine_similarity_Unguarded(vec1, vec2) ==
    IF ~vec1.some \/ ~vec2.some THEN ZeroFloat
    ELSE IF NormSq(vec1.arr) * NormSq(vec2.arr) = 0 THEN NaN
    ELSE Float(Dot(vec1.arr, vec2.arr), NormSq(vec1.arr) * NormSq(vec2.arr), TRUE)

cosine_similarity(vec1, vec2) ==
    IF ~vec1.some \/ ~vec2.some THEN ZeroFloat     \* is None: return 0.0
    ELSE LET dot_product == Dot(vec1.arr, vec2.arr)
             norm_sq1    == NormSq(vec1.arr)
             norm_sq2    == NormSq(vec2.arr)
         IN  IF norm_sq1 = 0 \/ norm_sq2 = 0 THEN ZeroFloat
             ELSE Float(dot_product, norm_sq1 * norm_sq2, TRUE)

\* the models whose usage is counted: the completion model and the embedding
\* model
MODEL_DEFAULT   == "MODEL_DEFAULT"
EMBEDDING_MODEL == "EMBEDDING_MODEL"
Models == {MODEL_DEFAULT, EMBEDDING_MODEL}

\* dict.get(model, 0) of the four dictionaries
NoCount == [calls |-> 0, prompt |-> 0, completion |-> 0, total |-> 0]
NoUsage == [m \in Models |-> NoCount]

\* the usage block of a completion reply (stream_options asks for it) and of
\* an embedding reply
ReplyUsage     == [prompt |-> 2, completion |-> 1, total |-> 3]
EmbeddingUsage == [prompt |-> 2, completion |-> 0, total |-> 2]

\* TOTAL_CALL_COUNTER[model] += 1
CountCall(u, model) == [u EXCEPT ![model].calls = @ + 1]

\* TOTAL_TOKENS_PROMPT, _COMPLETION and _TOTAL [model] += the reply's counts
CountTokens(u, model, t) ==
    [u EXCEPT ![model].prompt = @ + t.prompt,
              ![model].completion = @ + t.completion,
              ![model].total = @ + t.total]

\* main()'s background task: where run_print_consumption is, whether
\* cancel() has been called on it, and the global "running"
Reporter(pc, must_cancel, running) ==
    [pc |-> pc, must_cancel |-> must_cancel, running |-> running]
NoReporter == Reporter("none", FALSE, FALSE)

NoProbe == [op |-> "none", text |-> <<>>, slug |-> <<>>,
            vec1 |-> NoVec, vec2 |-> NoVec, sim |-> ZeroFloat,
            query |-> "", vector |-> "None", requests |-> 0,
            items |-> <<>>, top_k |-> 0, similar |-> <<>>,
            chunks |-> <<>>, path |-> "none", returned |-> <<>>,
            prompts |-> <<>>, loaded |-> [raised |-> "none", text |-> <<>>]]

\* the aggregator before main() reaches it
IdleAgg ==
    [pc |-> "idle", raised |-> "none", had |-> {}, vocab |-> {},
     all_tags |-> <<>>, n |-> 0,
     pruned |-> [raised |-> "none", some |-> FALSE, tags |-> <<>>],
     cur |-> <<>>, j |-> 0, log |-> <<>>,
     all_prompts |-> <<>>, article_infos |-> <<>>, sent |-> <<>>]

\* the parts a specification does not drive stay as they are at start-up
OthersIdle ==
    /\ probe = NoProbe
    /\ articles = <<>>
    /\ tagStore = <<>>
    /\ agg = IdleAgg
    /\ usage = NoUsage
    /\ reporter = NoReporter

-----------------------------------------------------------------------------
(* SpecStore: the content store driven by arbitrary callers                *)

StoreDirs  == {Dir(DOCS_DIR, <<"a">>), Dir(TAGS_DIR, <<"b">>)}
StoreFiles == {SUMMARIZED_MD_FILE}
StoreTexts == {"", "text1", "text2"}
StoreVecs  == {None, "vec1", "vec2"}

NoStoreRes ==
    [op |-> "none", dir |-> Dir(DOCS_DIR, <<"a">>), file |-> SUMMARIZED_MD_FILE,
     text |-> "", vec |-> None, dirExisted |-> FALSE, raised |-> FALSE,
     out |-> NoContent]

StoreEnsureDir(d) ==
    /\ UNCHANGED <<cfg, usage, reporter, probe, tagVars, pipeVars, gateVars>>
    /\ SetFS(ensure_dir_exists(CurFS, d))
    /\ storeRes' = [NoStoreRes EXCEPT !.op = "mkdir", !.dir = d,
                                      !.dirExisted = d \in fsDirs]

StoreSave(d, f, t, v) ==
    LET r == save_text_and_embedding(CurFS, d, f, t, v)
    IN  /\ UNCHANGED <<cfg, usage, reporter, probe, tagVars, pipeVars, gateVars>>
        /\ SetFS(r.fs)
        /\ storeRes' = [NoStoreRes EXCEPT !.op = "save", !.dir = d, !.file = f,
                                          !.text = t, !.vec = v,
                                          !.dirExisted = d \in fsDirs,
                                          !.raised = r.raised]

StoreLoad(d, f) ==
    /\ UNCHANGED <<cfg, usage, reporter, probe, tagVars, pipeVars, gateVars>>
    /\ storeRes' = [NoStoreRes EXCEPT !.op = "load", !.dir = d, !.file = f,
                                      !.dirExisted = d \in fsDirs,
                                      !.out = load_text_and_embedding(CurFS, d, f)]
    /\ UNCHANGED fsVars

\* an embedding file damaged on disk between two runs
StoreDamage(d, f) ==
    /\ UNCHANGED <<cfg, usage, reporter, probe, tagVars, pipeVars, gateVars>>
    /\ File(d, NpzName(f)) \in DOMAIN fsFiles
    /\ fsFiles' = [fsFiles EXCEPT ![File(d, NpzName(f))] = Corrupt]
    /\ storeRes' = [NoStoreRes EXCEPT !.op = "damage", !.dir = d, !.file = f,
                                      !.dirExisted = TRUE]
    /\ UNCHANGED <<fsRoots, fsDirs>>

\* config.py's defaults for the gateway, with force-rebuild off
DefaultCfg == [maxConcurrent |-> 4, stream |-> TRUE, thinking |-> FALSE,
               rebuild |-> FALSE, rag |-> TRUE, rebuildTags |-> FALSE]

InitStore ==
    /\ cfg = DefaultCfg
    /\ fsRoots = {}
    /\ fsDirs = {}
    /\ fsFiles = EmptyFiles
    /\ storeRes = NoStoreRes
    /\ task = <<>>
    /\ mainPc = "idle"
    /\ mainRes = "none"
    /\ faults = 0
    /\ sem = 0
    /\ caller = <<>>
    /\ waiters = <<>>
    /\ loopOwner = 0
    /\ OthersIdle

NextStore ==
    \/ \E d \in StoreDirs : StoreEnsureDir(d)
    \/ \E d \in StoreDirs, f \in StoreFiles, t \in StoreTexts, v \in StoreVecs :
           StoreSave(d, f, t, v)
    \/ \E d \in StoreDirs, f \in StoreFiles : StoreLoad(d, f)
    \/ \E d \in StoreDirs, f \in StoreFiles : StoreDamage(d, f)

SpecStore == InitStore /\ [][NextStore]_vars


-----------------------------------------------------------------------------
(* The completion gateway (openai_utils.py)                                *)

ApiErrors == {"APIConnectionError", "RateLimitError", "APIStatusError"}
Failures  == ApiErrors \cup {"Exception"}
\* what the provider does with one request: a reply with content, a reply
\* without content, or one of the failures
Outcomes  == {"ok", "empty"} \cup Failures

GenText == "generated"

Completed(value) == [raised |-> FALSE, value |-> value]
Escaped          == [raised |-> TRUE, value |-> None]

\* the handlers "except Exception" alone left out
generate_completion_streaming_ApiOnly(outcome) ==
    IF outcome \in ApiErrors THEN Completed(None)
    ELSE IF outcome = "Exception" THEN Escaped
    ELSE IF outcome = "ok" THEN Completed(GenText)
    ELSE Completed("")

\* the synchronous streaming call: the whole body is inside try
generate_completion_streaming(outcome) ==
    IF outcome \in ApiErrors THEN Completed(None)      \* except (API errors)
    ELSE IF outcome = "Exception" THEN Completed(None) \* except Exception
    ELSE IF outcome = "ok" THEN Completed(GenText)     \* return panel_content
    ELSE Completed("")

agenerate_completion_streaming(maxConcurrent, outcome) ==
    IF maxConcurrent = 1
    THEN generate_completion_streaming(outcome)
    ELSE IF outcome \in ApiErrors THEN Completed(None)
    ELSE IF outcome = "Exception" THEN Completed(None)
    ELSE IF outcome = "ok" THEN Completed(GenText)
    ELSE Completed("")

generate_completion(stream, thinking, maxConcurrent, outcome) ==
    IF stream \/ thinking
    THEN agenerate_completion_streaming(maxConcurrent, outcome)
    ELSE IF outcome \in ApiErrors THEN Completed(None)
    ELSE IF outcome = "Exception" THEN Completed(None)
    \* response.choices[0].message.content, or None when it is empty
    ELSE IF outcome = "ok" THEN Completed(GenText)
    ELSE Completed(None)

\* an optional string of a chunk: None, or a text as its characters
Absent     == [some |-> FALSE, text |-> <<>>]
TextOf(cs) == [some |-> TRUE, text |-> cs]
Truthy(x)  == x.some /\ x.text # <<>>

\* chunk.usage: None, or the token counts of the response
NoChunkUsage == [some |-> FALSE, prompt |-> 0, completion |-> 0, total |-> 0]
ChunkUsage(t) ==
    [some |-> TRUE, prompt |-> t.prompt, completion |-> t.completion,
     total |-> t.total]

\* a chunk of a streamed response: chunk.usage and chunk.choices, a list of
\* deltas with content and reasoning_content
Delta(content, reasoning_content) ==
    [content |-> content, reasoning_content |-> reasoning_content]
Chunk(chunk_usage, choices) == [usage |-> chunk_usage, choices |-> choices]

\* prompt_tokens = completion_tokens = total_tokens = 0 (line 200), -1 (284)
InitialTokens(path) ==
    LET n == IF path = "sync" THEN 0 ELSE 0 - 1
    IN  [prompt |-> n, completion |-> n, total |-> n]

RECURSIVE ConsumeStream_KeepsReasoning(_, _, _)
\* a loop that returns the reasoning trace with the content
ConsumeStream_KeepsReasoning(stream, tokens, panel_content) ==
    IF stream = <<>> THEN [tokens |-> tokens, panel_content |-> panel_content]
    ELSE LET chunk == Head(stream)
             delta == chunk.choices[1]
         IN  ConsumeStream_KeepsReasoning(
                 Tail(stream),
                 IF chunk.usage.some
                 THEN [prompt |-> chunk.usage.prompt,
                       completion |-> chunk.usage.completion,
                       total |-> chunk.usage.total]
                 ELSE tokens,
                 IF chunk.choices = <<>> THEN panel_content
                 ELSE panel_content
                      \o (IF Truthy(delta.reasoning_content)
                          THEN delta.reasoning_content.text ELSE <<>>)
                      \o (IF Truthy(delta.content) THEN delta.content.text
                          ELSE <<>>))

RECURSIVE ConsumeStream(_, _, _)
\* "for chunk in stream", lines 204-215, and "async for", lines 286-294
ConsumeStream(stream, tokens, panel_content) ==
    IF stream = <<>> THEN [tokens |-> tokens, panel_content |-> panel_content]
    ELSE LET chunk == Head(stream)
         IN  ConsumeStream(
                 Tail(stream),
                 IF chunk.usage.some                          \* if chunk.usage:
                 THEN [prompt |-> chunk.usage.prompt,
                       completion |-> chunk.usage.completion,
                       total |-> chunk.usage.total]
                 ELSE tokens,
                 IF chunk.choices # <<>> /\ Truthy(chunk.choices[1].content)
                 THEN panel_content \o chunk.choices[1].content.text
                 ELSE panel_content)

\* the stream is consumed, the tokens added (lines 200-224, 284-303) and
\* panel_content returned
StreamedReply(u, path, stream) ==
    LET r == ConsumeStream(stream, InitialTokens(path), <<>>)
    IN  [usage |-> CountTokens(u, MODEL_DEFAULT, r.tokens),
         value |-> r.panel_content]

\* generate_completion_streaming, which awaits nothing: the call is counted
\* (lines 180-183), the stream consumed and the tokens added
StreamingCall(u, path, stream) ==
    StreamedReply(CountCall(u, MODEL_DEFAULT), path, stream)

\* which code path serves a request: "sync" holds no semaphore slot and
\* blocks the event loop, the other two run under "async with semaphore"
PathOf(stream, thinking, maxConcurrent) ==
    IF stream \/ thinking
    THEN IF maxConcurrent = 1 THEN "sync" ELSE "astream"
    ELSE "plain"

\* use 10000 as unlimited
UnlimitedSlots == 10000

SemaphoreSlots(maxConcurrent) ==
    IF maxConcurrent > 0 THEN maxConcurrent ELSE UnlimitedSlots

\* the call sites pass thinking=DEFAULT_THINKING (summary passes, short
\* summary) or thinking=False (merge, TLDR, tags); none passes stream
Sites == {"thinking_default", "thinking_off"}
SiteThinking(site) == IF site = "thinking_default" THEN cfg.thinking ELSE FALSE

-----------------------------------------------------------------------------
(* SpecGate: concurrent callers of generate_completion                     *)

NumCallers  == 2
MaxRequests == 1

Callers == 1..NumCallers

IdleCaller ==
    [pc |-> "idle", path |-> "plain", site |-> "thinking_off",
     left |-> MaxRequests, got |-> "none", res |-> Completed(None),
     waited |-> FALSE]

InFlight == Cardinality({c \in Callers : caller[c].pc = "inflight"})

\* the usage reporter among the acquirers of the semaphore
ReporterId == 0

\* the semaphore: its _value and its _waiters, a future per suspended
\* acquirer with the future's done() flag
Semaphore(value, queue) == [value |-> value, waiters |-> queue]
CurSem == Semaphore(sem, waiters)
Waiter(who) == [who |-> who, done |-> FALSE]

SetSem(s) ==
    /\ sem' = s.value
    /\ waiters' = s.waiters

\* Semaphore.locked(): no slot is free, or an acquirer is queued
Locked(s) == s.value = 0 \/ s.waiters # <<>>

\* the acquirer whose future was set: the slot was handed to it
Granted(s, who) ==
    \E k \in 1..Len(s.waiters) : s.waiters[k].who = who /\ s.waiters[k].done

\* a semaphore that wakes nobody
WakeUpNext_Nobody(s) == s

\* Semaphore._wake_up_next(): the first waiter whose future is not done gets
\* the slot, _value -= 1 and fut.set_result(True)
WakeUpNext(s) ==
    LET pending == {k \in 1..Len(s.waiters) : ~s.waiters[k].done}
    IN  IF pending = {} THEN s
        ELSE LET first == CHOOSE k \in pending : \A j \in pending : k <= j
             IN  Semaphore(s.value - 1, [s.waiters EXCEPT ![first].done = TRUE])

\* Semaphore.release(): _value += 1, then _wake_up_next()
Release(s) == WakeUpNext(Semaphore(s.value + 1, s.waiters))

\* acquire() goes on after "await fut": the future leaves the queue, and
\* with a slot still free the next waiter is woken
Resumed(s, who) ==
    LET rest == SelectSeq(s.waiters, LAMBDA w : w.who # who)
    IN  IF s.value > 0 THEN WakeUpNext(Semaphore(s.value, rest))
        ELSE Semaphore(s.value, rest)

\* acquire() on entry: a slot is taken at once unless locked(), or the
\* acquirer is queued
Enqueued(s, who) == Semaphore(s.value, Append(s.waiters, Waiter(who)))
Taken(s) == Semaphore(s.value - 1, s.waiters)

\* a caller enters generate_completion
GateCall(c, site) ==
    LET path == PathOf(cfg.stream, SiteThinking(site), cfg.maxConcurrent)
        me   == [caller[c] EXCEPT !.path = path, !.site = site, !.got = "none",
                                  !.res = Completed(None), !.waited = FALSE]
    IN  /\ loopOwner = 0
        /\ caller[c].pc = "idle"
        /\ caller[c].left > 0
        /\ IF path = "sync"
           THEN /\ caller' = [caller EXCEPT ![c] = [me EXCEPT !.pc = "inflight"]]
                /\ loopOwner' = c
                /\ UNCHANGED <<sem, waiters>>
                /\ usage' = CountCall(usage, MODEL_DEFAULT)        \* line 183
           ELSE IF ~Locked(CurSem)
           THEN /\ caller' = [caller EXCEPT ![c] = [me EXCEPT !.pc = "inflight"]]
                /\ SetSem(Taken(CurSem))
                /\ loopOwner' = loopOwner
                /\ usage' = CountCall(usage, MODEL_DEFAULT)        \* lines 269, 342
           ELSE /\ caller' = [caller EXCEPT ![c] = [me EXCEPT !.pc = "waiting",
                                                          !.waited = TRUE]]
                /\ SetSem(Enqueued(CurSem, c))
                /\ UNCHANGED <<loopOwner, usage>>
        /\ UNCHANGED <<cfg, reporter, probe, tagVars, fsVars, storeRes, pipeVars>>

\* a caller suspended in "async with semaphore" runs again: a release handed
\* it the slot, which is not counted in _value any more
GateAdmit(c) ==
    /\ loopOwner = 0
    /\ caller[c].pc = "waiting"
    /\ Granted(CurSem, c)
    /\ SetSem(Resumed(CurSem, c))
    /\ caller' = [caller EXCEPT ![c].pc = "inflight"]
    /\ usage' = CountCall(usage, MODEL_DEFAULT)                    \* lines 269, 342
    /\ UNCHANGED <<cfg, reporter, probe, tagVars, fsVars, storeRes, pipeVars, loopOwner>>

\* a call that gives its slot back only when the provider answered
GateReturn_KeepsSlotOnFailure(c, outcome) ==
    /\ loopOwner \in {0, c}
    /\ caller[c].pc = "inflight"
    /\ caller' = [caller EXCEPT ![c] =
                    [@ EXCEPT !.pc = "idle", !.left = @ - 1, !.got = outcome,
                              !.waited = FALSE,
                              !.res = generate_completion(
                                          cfg.stream, SiteThinking(caller[c].site),
                                          cfg.maxConcurrent, outcome)]]
    /\ SetSem(IF caller[c].path = "sync" \/ outcome \in Failures THEN CurSem
              ELSE Release(CurSem))
    /\ loopOwner' = 0
    /\ usage' = IF outcome \in Failures THEN usage
                ELSE CountTokens(usage, MODEL_DEFAULT, ReplyUsage)
    /\ UNCHANGED <<cfg, reporter, probe, tagVars, fsVars, storeRes, pipeVars>>

\* the provider answers or fails, and the call returns to its caller: leaving
\* "async with semaphore" releases the slot, to the first waiter if there is
\* one
GateReturn(c, outcome) ==
    /\ loopOwner \in {0, c}
    /\ caller[c].pc = "inflight"
    /\ caller' = [caller EXCEPT ![c] =
                    [@ EXCEPT !.pc = "idle", !.left = @ - 1, !.got = outcome,
                              !.waited = FALSE,
                              !.res = generate_completion(
                                          cfg.stream, SiteThinking(caller[c].site),
                                          cfg.maxConcurrent, outcome)]]
    /\ SetSem(IF caller[c].path = "sync" THEN CurSem ELSE Release(CurSem))
    /\ loopOwner' = 0
    \* lines 217-224, 296-303 and 353-361, which an exception skips
    /\ usage' = IF outcome \in Failures THEN usage
                ELSE CountTokens(usage, MODEL_DEFAULT, ReplyUsage)
    /\ UNCHANGED <<cfg, reporter, probe, tagVars, fsVars, storeRes, pipeVars>>

GateConfigs ==
    [maxConcurrent : {-1, 0, 1, 2}, stream : BOOLEAN, thinking : BOOLEAN,
     rebuild : {FALSE}, rag : {TRUE}, rebuildTags : {FALSE}]

InitGate ==
    /\ cfg \in GateConfigs
    /\ fsRoots = {}
    /\ fsDirs = {}
    /\ fsFiles = EmptyFiles
    /\ storeRes = NoStoreRes
    /\ task = <<>>
    /\ mainPc = "idle"
    /\ mainRes = "none"
    /\ faults = 0
    /\ sem = SemaphoreSlots(cfg.maxConcurrent)
    /\ caller = [c \in Callers |-> IdleCaller]
    /\ waiters = <<>>
    /\ loopOwner = 0
    /\ OthersIdle

NextGate ==
    \/ \E c \in Callers, site \in Sites : GateCall(c, site)
    \/ \E c \in Callers : GateAdmit(c)
    \/ \E c \in Callers, o \in Outcomes : GateReturn(c, o)

SpecGate == InitGate /\ [][NextGate]_vars

-----------------------------------------------------------------------------
(* SpecGateFair: the callers and the usage reporter on a fair event loop   *)

\* run_print_consumption reaches "async with semaphore" of
\* rich_print_consumption_table (openai_utils.py:52-53), for the first time
\* or out of its sleep: unless the semaphore is locked it takes a slot,
\* prints the table and gives the slot back without suspending (lines 54-105
\* have no await), then sleeps; otherwise it is queued in the acquire
GateReporterRun ==
    /\ loopOwner = 0
    /\ reporter.pc \in {"scheduled", "sleeping"}
    /\ IF ~Locked(CurSem)
       THEN /\ reporter' = [reporter EXCEPT !.pc = "sleeping"]
            /\ SetSem(Release(Taken(CurSem)))
       ELSE /\ reporter' = [reporter EXCEPT !.pc = "waiting"]
            /\ SetSem(Enqueued(CurSem, ReporterId))
    /\ UNCHANGED <<cfg, usage, probe, tagVars, fsVars, storeRes, pipeVars,
                   caller, loopOwner>>

\* the suspended reporter was handed a slot: it prints, gives the slot back
\* and sleeps
GateReporterAdmit ==
    /\ loopOwner = 0
    /\ reporter.pc = "waiting"
    /\ Granted(CurSem, ReporterId)
    /\ SetSem(Release(Resumed(CurSem, ReporterId)))
    /\ reporter' = [reporter EXCEPT !.pc = "sleeping"]
    /\ UNCHANGED <<cfg, usage, probe, tagVars, fsVars, storeRes, pipeVars,
                   caller, loopOwner>>

\* the configurations in which callers can meet a full semaphore; with
\* DEFAULT_STREAM off and ENABLE_THINKING on the two kinds of call site take
\* all three paths
InitGateFair ==
    /\ cfg \in {g \in GateConfigs : g.maxConcurrent > 0 /\ ~g.stream /\ g.thinking}
    /\ fsRoots = {}
    /\ fsDirs = {}
    /\ fsFiles = EmptyFiles
    /\ storeRes = NoStoreRes
    /\ task = <<>>
    /\ mainPc = "idle"
    /\ mainRes = "none"
    /\ faults = 0
    /\ sem = SemaphoreSlots(cfg.maxConcurrent)
    /\ caller = [c \in Callers |-> IdleCaller]
    /\ waiters = <<>>
    /\ loopOwner = 0
    /\ probe = NoProbe
    /\ articles = <<>>
    /\ tagStore = <<>>
    /\ agg = IdleAgg
    /\ usage = NoUsage
    /\ reporter = Reporter("scheduled", FALSE, TRUE)

\* an admitted request returns, or fails: the failures leave through the same
\* "async with", so one failure stands for them
FairOutcomes == {"ok", "RateLimitError"}

NextGateFair ==
    \/ \E c \in Callers, site \in Sites : GateCall(c, site)
    \/ \E c \in Callers : GateAdmit(c)
    \/ \E c \in Callers, o \in FairOutcomes : GateReturn(c, o)
    \/ GateReporterRun
    \/ GateReporterAdmit

\* the provider answers or fails every request it was sent, and the event
\* loop runs every task that is ready to go on
GateFairness ==
    /\ \A c \in Callers : WF_vars(\E o \in FairOutcomes : GateReturn(c, o))
    /\ \A c \in Callers : WF_vars(GateAdmit(c))
    /\ WF_vars(GateReporterAdmit)

SpecGateFair == InitGateFair /\ [][NextGateFair]_vars /\ GateFairness

\* the slots that are not free are those of the requests in flight under
\* "async with semaphore"
SlotsHeld ==
    Cardinality({c \in Callers : caller[c].pc = "inflight" /\ caller[c].path # "sync"})

\* the slots a release handed to a waiter that has not run yet
SlotsHanded == Cardinality({k \in 1..Len(waiters) : waiters[k].done})

\* C38: every slot that is taken is given back, whether the request returns
\* or fails, and the reporter holds none while it waits or sleeps; so a
\* caller, or the reporter, waiting for a slot is eventually admitted.
C38_WaitingIsAdmitted ==
    [](/\ sem + SlotsHanded + SlotsHeld = SemaphoreSlots(cfg.maxConcurrent)
       /\ \A c \in Callers :
             caller[c].pc = "waiting" => <>(caller[c].pc = "inflight")
       /\ reporter.pc = "waiting" => <>(reporter.pc = "sleeping"))

\* a caller that had to wait is in flight after another's request failed,
\* and the reporter has printed
C38_Witness ==
    \E c, d \in Callers :
        /\ caller[c].pc = "inflight" /\ caller[c].waited
        /\ caller[d].got \in Failures
        /\ reporter.pc = "sleeping"

\* C4: whatever failure the provider call raises, generate_completion returns
\* None to its caller and never raises, on every path.
C4_FailureReturnsNone ==
    \A c \in Callers :
        caller[c].got \in Failures => caller[c].res = Completed(None)

C4_Witness ==
    \E c, d \in Callers :
        /\ caller[c].got = "Exception" /\ caller[c].path = "astream"
        /\ caller[c].pc = "idle" /\ caller[c].res = Completed(None)
        /\ caller[d].got = "RateLimitError" /\ caller[d].path = "plain"
        /\ caller[d].pc = "idle" /\ caller[d].res = Completed(None)

\* C5: with a configured limit N > 0 no more than N completion requests are
\* in flight at the same time.
C5_InFlightWithinLimit ==
    cfg.maxConcurrent > 0 => InFlight <= cfg.maxConcurrent

\* C6: with a negative configured limit at most one completion request is in
\* flight at any time.
C6_NegativeLimitSerializes ==
    cfg.maxConcurrent < 0 => InFlight <= 1

StoreMd  == File(storeRes.dir, storeRes.file)
StoreNpz == File(storeRes.dir, NpzName(storeRes.file))

\* C9: load_text_and_embedding returns None exactly when the text file is
\* absent; with the text file present and the embedding file missing or
\* unreadable it returns the text paired with embedding None.
C9_LoadMissesOnlyOnAbsentText ==
    storeRes.op = "load" =>
        /\ (~storeRes.out.some) <=> (StoreMd \notin DOMAIN fsFiles)
        /\ ( /\ StoreMd \in DOMAIN fsFiles
             /\ (StoreNpz \notin DOMAIN fsFiles \/ fsFiles[StoreNpz] = Corrupt) )
           => storeRes.out = Content(fsFiles[StoreMd], None)

C9_Witness ==
    /\ storeRes.op = "load"
    /\ StoreMd \in DOMAIN fsFiles
    /\ StoreNpz \in DOMAIN fsFiles
    /\ fsFiles[StoreNpz] = Corrupt
    /\ storeRes.out = Content(fsFiles[StoreMd], None)

\* C10: save_text_and_embedding called with a directory that does not exist
\* creates the directory and writes the text file (and the embedding file
\* when a vector is given) inside it.
C10_SaveCreatesDirectory ==
    (storeRes.op = "save" /\ ~storeRes.dirExisted) =>
        /\ ~storeRes.raised
        /\ storeRes.dir \in fsDirs
        /\ StoreMd \in DOMAIN fsFiles
        /\ fsFiles[StoreMd] = storeRes.text
        /\ storeRes.vec # None =>
              (StoreNpz \in DOMAIN fsFiles /\ fsFiles[StoreNpz] = storeRes.vec)

\* C34: after save_text_and_embedding(dir, name, text, vector) has returned,
\* load_text_and_embedding(dir, name) yields that text paired with that
\* vector, None when none was given, whatever was stored under the name before.
C34_LoadYieldsWhatWasSaved ==
    (storeRes.op = "save" /\ ~storeRes.raised) =>
        load_text_and_embedding(CurFS, storeRes.dir, storeRes.file)
            = Content(storeRes.text, storeRes.vec)

\* the callers whose one call so far has returned, and how it ended
ReturnedOnce(c) ==
    caller[c].pc = "idle" /\ caller[c].left = MaxRequests - 1
NeverCalled(c) ==
    caller[c].pc = "idle" /\ caller[c].left = MaxRequests

\* the counters after n successful completion calls and nothing else
UsageOf(n) ==
    [calls |-> n, prompt |-> n * ReplyUsage.prompt,
     completion |-> n * ReplyUsage.completion, total |-> n * ReplyUsage.total]

\* C21: the usage counters of the completion model are those of the calls
\* that succeeded: once every caller has made at most one call and all calls
\* have returned, the call count is the number of calls that succeeded, the
\* token counts are the sums of their usage blocks, and a failed call has
\* changed no counter.
C21_UsageCountsSuccessesOnly ==
    (\A c \in Callers : ReturnedOnce(c) \/ NeverCalled(c)) =>
        usage[MODEL_DEFAULT] =
            UsageOf(Cardinality({c \in Callers :
                                    /\ ReturnedOnce(c)
                                    /\ caller[c].got \notin Failures}))

-----------------------------------------------------------------------------
(* The embedding call and the tag-string parser                            *)

OldText == "old"

Blank(text) == text \in {"", "   "}                 \* not text.strip()

VecOf(text) == IF text = OldText THEN "vec_old" ELSE "vec_generated"

\* eo is what the embeddings endpoint does: "ok" or "fail"
get_embedding(text, eo) ==
    IF Blank(text) THEN None
    ELSE IF eo = "ok" THEN VecOf(text)
    ELSE None                                       \* except ...: return None

\* 1 when get_embedding reaches the network, 0 when it short-circuits
EmbeddingRequests(text) == IF Blank(text) THEN 0 ELSE 1

\* the call counted before the text is looked at
CountEmbedding_CountsFirst(u, text, eo) ==
    IF Blank(text) \/ eo # "ok" THEN CountCall(u, EMBEDDING_MODEL)
    ELSE CountTokens(CountCall(u, EMBEDDING_MODEL), EMBEDDING_MODEL, EmbeddingUsage)

\* the usage counters after get_embedding(text): lines 123-144
CountEmbedding(u, text, eo) ==
    IF Blank(text) THEN u                           \* return None
    ELSE IF eo = "ok"
    THEN CountTokens(CountCall(u, EMBEDDING_MODEL), EMBEDDING_MODEL, EmbeddingUsage)
    ELSE CountCall(u, EMBEDDING_MODEL)

\* str.split(","): the pieces between the commas
RECURSIVE SplitComma(_, _)
SplitComma(s, cur) ==
    IF s = <<>> THEN <<cur>>
    ELSE IF Head(s) = "," THEN <<cur>> \o SplitComma(Tail(s), <<>>)
    ELSE SplitComma(Tail(s), Append(cur, Head(s)))

RECURSIVE SlugifyPieces(_)
\* [slugify(tag.strip()) for tag in pieces if tag.strip()]
SlugifyPieces(pieces) ==
    IF pieces = <<>> THEN <<>>
    ELSE LET tag == Strip(Head(pieces), " ")
         IN  IF tag # <<>>
             THEN <<slugify(tag)>> \o SlugifyPieces(Tail(pieces))
             ELSE SlugifyPieces(Tail(pieces))

\* the reply of the tag-extraction prompt: a comma-separated tag string
GenTagString == <<"A", " ", "b", ",", " ", "b", ",", " ">>
OldTags      == << <<"a">> >>

\* agenerate_tags, from the gateway's return value on
agenerate_tags(value) ==
    IF value # None /\ value # ""
    THEN SlugifyPieces(SplitComma(GenTagString, <<>>))
    ELSE <<>>

TAG_DESCRIPTION_MD_FILE == "description.md"
TAG_SURVEY_MD_FILE      == "survey.md"

\* prompts.py, create_message_entry: content is the template with its fields
\* filled in, kept as the pieces it is put together from
create_message_entry(role, content) == [role |-> role, content |-> content]

\* the messages of one role among the messages of a call
Turns(messages, role) == SelectSeq(messages, LAMBDA m : m.role = role)

-----------------------------------------------------------------------------
(* The vector store (vector_store.py)                                      *)

\* f < g for two floats that are no NaN
Less(f, g) ==
    IF f.num < 0 /\ g.num >= 0 THEN TRUE
    ELSE IF f.num >= 0 /\ g.num < 0 THEN FALSE
    ELSE IF f.num >= 0
    THEN f.num * f.num * g.den2 < g.num * g.num * f.den2
    ELSE f.num * f.num * g.den2 > g.num * g.num * f.den2

RECURSIVE InsertDesc(_, _)
\* x goes in front of the first entry with a smaller similarity
InsertDesc(sorted, x) ==
    IF sorted = <<>> THEN <<x>>
    ELSE IF Less(Head(sorted).sim, x.sim) THEN <<x>> \o sorted
    ELSE <<Head(sorted)>> \o InsertDesc(Tail(sorted), x)

RECURSIVE SortDesc(_)
\* similarities.sort(key=lambda x: x[1], reverse=True): descending and stable
SortDesc(pairs) ==
    IF pairs = <<>> THEN <<>>
    ELSE InsertDesc(SortDesc(SubSeq(pairs, 1, Len(pairs) - 1)), pairs[Len(pairs)])

RECURSIVE Similarities(_, _)
\* lines 31-35: the (item, sim) pairs of the items that have a vector
Similarities(query_embedding, content_list) ==
    IF content_list = <<>> THEN <<>>
    ELSE LET item == Head(content_list)
             rest == Similarities(query_embedding, Tail(content_list))
         IN  IF item.vector.some
             THEN <<[item |-> item,
                     sim |-> cosine_similarity(query_embedding, item.vector)]>> \o rest
             ELSE rest

find_similar_content(query_embedding, content_list, top_k) ==
    IF ~query_embedding.some \/ content_list = <<>> THEN <<>>
    ELSE LET similarities == SortDesc(Similarities(query_embedding, content_list))
             n == IF top_k < Len(similarities) THEN top_k ELSE Len(similarities)
         IN  [k \in 1..n |-> similarities[k].item]

\* the numbers of the vectors the embeddings endpoint gives, and a stored
\* embedding as the array np.load gives
Coordinates(v) == IF v = "vec_old" THEN <<1, 0>> ELSE <<1, 1>>
AsArray(v)     == IF v = None THEN NoVec ELSE Array(Coordinates(v))

\* os.listdir(root): the entries "in arbitrary order", the order the disk
\* has them in at the call; each root has an order of its own
Listdir(fs, root) == fs.order[root]

\* lines 41-56; the title and the text are pieces of one string
load_all_article_summaries_for_rag(fs) ==
    LET loaded(paper_slug) ==
            load_text_and_embedding(fs, Dir(DOCS_DIR, paper_slug), SUMMARIZED_MD_FILE)
        kept == SelectSeq(Listdir(fs, DOCS_DIR),
                          LAMBDA n : loaded(n).some /\ loaded(n).content # "")
    IN  IF DOCS_DIR \notin fs.roots THEN <<>>
        ELSE [k \in 1..Len(kept) |->
                 [content |-> <<"Article Title: ">> \o Title(Replace(kept[k], "-", " "))
                              \o <<"\nSummary:\n", loaded(kept[k]).content>>,
                  vector  |-> AsArray(loaded(kept[k]).vector)]]

\* lines 59-72
load_all_tag_descriptions_for_rag(fs) ==
    LET loaded(tag_slug) ==
            load_text_and_embedding(fs, Dir(TAGS_DIR, tag_slug), TAG_DESCRIPTION_MD_FILE)
        kept == SelectSeq(Listdir(fs, TAGS_DIR),
                          LAMBDA n : loaded(n).some /\ loaded(n).content # "")
    IN  IF TAGS_DIR \notin fs.roots THEN <<>>
        ELSE [k \in 1..Len(kept) |->
                 [content |-> <<"Tag: ">> \o Title(Replace(kept[k], "-", " "))
                              \o <<"\nDescription:\n", loaded(kept[k]).content>>,
                  vector  |-> AsArray(loaded(kept[k]).vector)]]

\* the strings the lookup returns in place of a context
Sentinels ==
    {"No relevant context found (embedding generation failed).",
     "Invalid source type for RAG.",
     "No existing content to retrieve from.",
     "No similar content found."}

RECURSIVE Blocks(_)
\* lines 107-108: context_str += item["content"] + "\n---\n"
Blocks(items) ==
    IF items = <<>> THEN <<>>
    ELSE Head(items).content \o <<"\n---\n">> \o Blocks(Tail(items))

\* lines 75-110; eo is what the embeddings endpoint does with the query
get_relevant_context_for_prompt(fs, query_text, eo, source_type, top_k) ==
    LET query_embedding   == get_embedding(query_text, eo)
        candidate_content == IF source_type = "articles"
                             THEN load_all_article_summaries_for_rag(fs)
                             ELSE load_all_tag_descriptions_for_rag(fs)
        similar_items     == find_similar_content(AsArray(query_embedding),
                                                  candidate_content, top_k)
    IN  IF query_embedding = None
        THEN <<"No relevant context found (embedding generation failed).">>
        ELSE IF source_type \notin {"articles", "tags"}
        THEN <<"Invalid source type for RAG.">>
        ELSE IF candidate_content = <<>>
        THEN <<"No existing content to retrieve from.">>
        ELSE IF similar_items = <<>>
        THEN <<"No similar content found.">>
        ELSE <<"\n\n---\nRelevant Information (", source_type, "):\n---\n">>
             \o Blocks(similar_items)

-----------------------------------------------------------------------------
(* The article pipeline (article_processor.py)                             *)

NoTags == "absent"

DirFiles(fs, dir) ==
    {p \in DOMAIN fs.files : p.root = dir.root /\ p.name = dir.name}

ArtifactNames ==
    {EXTRACTED_MD_FILE, SUMMARIZED_MD_FILE, SHORT_SUMMARIZED_MD_FILE,
     TLDR_MD_FILE, TAGS_JSON_FILE}
ArtifactFiles ==
    ArtifactNames \cup {NpzName(f) : f \in ArtifactNames \ {TAGS_JSON_FILE}}

\* the files of one directory, by file name
Listing(fs, dir) ==
    [f \in {p.file : p \in DirFiles(fs, dir)} |-> fs.files[File(dir, f)]]

\* os.rename(old, new) of directories: -1 when it raises OSError
RenameDir(fs, old, new) ==
    IF old \notin fs.dirs \/ DirFiles(fs, new) # {}
    THEN Raised(fs)
    ELSE LET moved == {File(new, p.file) : p \in DirFiles(fs, old)}
             kept  == DOMAIN fs.files \ DirFiles(fs, old)
         IN  Returned([fs EXCEPT
                 !.dirs  = (@ \ {old}) \cup {new},
                 !.files = [p \in kept \cup moved |->
                              IF p \in moved THEN fs.files[File(old, p.file)]
                              ELSE fs.files[p]]])

NewTask(d) ==
    [dir |-> d, slug |-> slugify(human_readable_slugify(d)), home |-> d,
     pc |-> "new", k |-> 0, result |-> "running", failed |-> "none",
     extracted |-> NoContent, summary |-> NoContent, short |-> NoContent,
     tldr |-> NoContent, tags |-> <<>>,
     ncalls |-> 0, nemb |-> 0, embFails |-> 0, ragFails |-> 0, pre |-> <<>>,
     all_prompts |-> <<>>, all_generated |-> <<>>, pos |-> 0, late |-> FALSE]

World(fs, t) == [fs |-> fs, t |-> t]

\* the message lists are locals of the stage functions
Leave(t) == [t EXCEPT !.all_prompts = <<>>, !.all_generated = <<>>]

Finish(w, result, failed) ==
    World(w.fs, [Leave(w.t) EXCEPT !.pc = "done", !.result = result,
                                   !.failed = failed])

\* the stage builds the messages of its call
Prompted(w, messages) == World(w.fs, [w.t EXCEPT !.all_prompts = messages])

Await(w, pc, k) ==
    World(w.fs, [w.t EXCEPT !.pc = pc, !.k = k, !.ncalls = @ + 1])

PaperPath(t) == Dir(DOCS_DIR, t.dir)

\* a stage that persists its text only when the embedding came back
EmbedAndSave_NeedsVector(w, filename_md, text, eo) ==
    LET vec == get_embedding(text, eo)
        r   == IF vec = None THEN Returned(w.fs)
               ELSE save_text_and_embedding(w.fs, PaperPath(w.t), filename_md, text, vec)
    IN  [w |-> World(r.fs, [w.t EXCEPT
                   !.nemb = @ + EmbeddingRequests(text),
                   !.embFails = @ + (IF eo # "ok" THEN EmbeddingRequests(text)
                                     ELSE 0)]),
         raised |-> r.raised, content |-> Content(text, vec)]

\* get_embedding followed by save_text_and_embedding, as every stage does
EmbedAndSave(w, filename_md, text, eo) ==
    LET vec == get_embedding(text, eo)
        r   == save_text_and_embedding(w.fs, PaperPath(w.t), filename_md, text, vec)
    IN  [w |-> World(r.fs, [w.t EXCEPT
                   !.nemb = @ + EmbeddingRequests(text),
                   !.embFails = @ + (IF eo # "ok" THEN EmbeddingRequests(text)
                                     ELSE 0)]),
         raised |-> r.raised, content |-> Content(text, vec)]

\* lines 425-445: tags.json is written and the record built
SaveTagsAndReturn(w, tags_list) ==
    Finish(World(WriteFile(w.fs, PaperPath(w.t), TAGS_JSON_FILE, tags_list),
                 [w.t EXCEPT !.tags = tags_list]),
           "record", w.t.failed)

RECURSIVE ReprItems(_)
\* the items of repr(a_list_of_str): each tag quoted, ", " between two
ReprItems(tags) ==
    IF tags = <<>> THEN <<>>
    ELSE <<"'">> \o Head(tags) \o <<"'">>
         \o (IF Len(tags) > 1 THEN <<", ">> ELSE <<>>)
         \o ReprItems(Tail(tags))

\* what "{content}".format(content=previous_tags) puts into the template
FormatTags(previous_tags) ==
    IF previous_tags = NoTags THEN <<"None">>
    ELSE <<"[">> \o ReprItems(previous_tags) \o <<"]">>

\* agenerate_tags, lines 288-295: the messages of the extraction call
TagsPrompts(text, previous_tags) ==
    <<create_message_entry("user",
          <<"<!-- This is previous generate tags --> ">> \o FormatTags(previous_tags)),
      create_message_entry("user", <<text>>)>>

\* lines 407-423
EnterTags(w) ==
    LET path == PaperPath(w.t)
        prev == IF Exists(w.fs, path, TAGS_JSON_FILE)
                THEN w.fs.files[File(path, TAGS_JSON_FILE)] ELSE NoTags
    IN  IF cfg.rebuild \/ prev = NoTags
        THEN Await(Prompted(w, TagsPrompts(w.t.short.content, prev)), "tags", 0)
        ELSE SaveTagsAndReturn(w, prev)

ResumeTags(w, res) == SaveTagsAndReturn(w, agenerate_tags(res.value))

\* lines 61-81: rag_ctx is "" unless a query is passed, and is a message of
\* the call when it is not ""
TldrPrompts(text, rag_ctx) ==
    <<create_message_entry("user", <<"<-- This is the Article Summary -->\n\n", text>>)>>
    \o (IF rag_ctx # <<>>
        THEN <<create_message_entry("user",
                   <<"<-- This is the RAG Context -->\n\n">> \o rag_ctx)>>
        ELSE <<>>)

\* the TLDR stage regenerating whatever is cached
EnterTldr_IgnoresCache(w) ==
    Await(Prompted(w, TldrPrompts(w.t.summary.content, <<>>)), "tldr", 0)

\* _agenerate_and_save_content_tldr up to its gateway call, lines 52-83;
\* aprocess_article passes no rag_query_for_prompt
EnterTldr(w) ==
    LET existing == load_text_and_embedding(w.fs, PaperPath(w.t), TLDR_MD_FILE)
    IN  IF existing.some /\ ~cfg.rebuild
        THEN EnterTags(World(w.fs, [w.t EXCEPT !.tldr = existing]))
        ELSE Await(Prompted(w, TldrPrompts(w.t.summary.content, <<>>)), "tldr", 0)

\* a TLDR stage whose failure ends the article
ResumeTldr_Fatal(w, res, eo) ==
    IF res.value = None \/ res.value = ""
    THEN Finish(w, "none", "tldr")
    ELSE LET s == EmbedAndSave(w, TLDR_MD_FILE, res.value, eo)
         IN  IF s.raised THEN Finish(s.w, "raised", "tldr")
             ELSE EnterTags(World(s.w.fs, [Leave(s.w.t) EXCEPT !.tldr = s.content]))

\* lines 89-97, then the caller from line 402 on
ResumeTldr(w, res, eo) ==
    IF res.value = None \/ res.value = ""
    THEN EnterTags(World(w.fs, [Leave(w.t) EXCEPT !.failed = "tldr"]))
    ELSE LET s == EmbedAndSave(w, TLDR_MD_FILE, res.value, eo)
         IN  IF s.raised THEN Finish(s.w, "raised", "tldr")
             ELSE EnterTags(World(s.w.fs, [Leave(s.w.t) EXCEPT !.tldr = s.content]))

\* lines 252-263: the article and its detailed summary, one message each
ShortPrompts(full_text, summary_text) ==
    <<create_message_entry("user",
          <<"<-- This is the Full Article Text -->\n\n", full_text>>),
      create_message_entry("user",
          <<"<-- This is the Detailed Article Summary -->\n\n", summary_text>>)>>

\* _agenerate_and_save_content_short_summary up to its call, lines 243-270;
\* the caller passes raw_text and summary_obj["content"] (lines 383-388)
EnterShort(w) ==
    LET existing == load_text_and_embedding(w.fs, PaperPath(w.t),
                                            SHORT_SUMMARIZED_MD_FILE)
    IN  IF existing.some /\ ~cfg.rebuild
        THEN EnterTldr(World(w.fs, [w.t EXCEPT !.short = existing]))
        ELSE Await(Prompted(w, ShortPrompts(w.t.extracted.content,
                                            w.t.summary.content)),
                   "short", 0)

\* lines 272-281, then the caller's lines 390-392
ResumeShort(w, res, eo) ==
    IF res.value = None \/ res.value = ""
    THEN Finish(w, "none", "short")
    ELSE LET s == EmbedAndSave(w, SHORT_SUMMARIZED_MD_FILE, res.value, eo)
         IN  IF s.raised THEN Finish(s.w, "raised", "short")
             ELSE EnterTldr(World(s.w.fs, [s.w.t EXCEPT !.short = s.content]))

\* the calls of the full-summary chain: prelogue, pass1, pass2, pass3,
\* epilogue, merge
SummaryCalls == 6

\* lines 110-117 and 146, 186-191: the instruction of the k-th stage
StageInstruction(k) ==
    create_message_entry("user",
        <<(<<"Generate the introduction part of the paper summary. Fill in the blanks(square bracket). Do not include other contents. Template: \n\n",
             "Generate your first pass reading summary of the paper. Fill in the blanks(square bracket). Do not include other contents. Template:\n\n",
             "Generate your second pass reading summary of the paper. Fill in the blanks(square bracket). Do not include other contents. Template:\n\n",
             "Generate your third pass reading summary of the paper. Fill in the blanks(square bracket). Do not include other contents. Template:\n\n",
             "Generate the conclusion part of the paper summary. Fill in the blanks(square bracket). Do not include other contents. Template: \n\n">>)[k],
          (<<"prompts/article_summary/summary_prelogue.md",
             "prompts/article_summary/summary_pass1.md",
             "prompts/article_summary/summary_pass2.md",
             "prompts/article_summary/summary_pass3.md",
             "prompts/article_summary/summary_epilogue.md">>)[k]>>)

\* line 210
merge_prompt == create_message_entry("user", <<"ARTICLE_SUMMARY_MERGE_PROMPT">>)

\* lines 124-149: the article, the previous summary if there is one, and the
\* instruction of the prelogue
SummaryPrompts(text_to_process, previous_content_for_prompt) ==
    <<create_message_entry("user",
          <<"<!-- This is the Article Content -->\n\n", text_to_process>>)>>
    \o (IF previous_content_for_prompt # "N/A"
        THEN <<create_message_entry("user",
                   <<"<!-- This is the Previous Summary -->\n\n",
                     previous_content_for_prompt>>)>>
        ELSE <<>>)
    \o <<StageInstruction(1)>>

\* _agenerate_and_save_content_article_summary up to its first call, with
\* lines 367-370 of the caller
EnterSummary(w) ==
    LET existing == load_text_and_embedding(w.fs, PaperPath(w.t), SUMMARIZED_MD_FILE)
        previous_summary_text == IF existing.some THEN existing.content ELSE "N/A"
    IN  IF existing.some /\ ~cfg.rebuild
        THEN EnterShort(World(w.fs, [w.t EXCEPT !.summary = existing]))
        ELSE Await(Prompted(w, SummaryPrompts(w.t.extracted.content,
                                              previous_summary_text)),
                   "summary", 1)

\* lines 171-178: after the prelogue, two context lookups embed its text,
\* each with a request of its own: eo answers the lookup among the articles,
\* eo2 the lookup among the tags
RagLookups(w, generated_text, eo, eo2) ==
    IF w.t.k = 1 /\ cfg.rag
    THEN World(w.fs, [w.t EXCEPT
             !.nemb = @ + 2 * EmbeddingRequests(generated_text),
             !.ragFails = @ + ((IF eo # "ok" THEN 1 ELSE 0)
                               + (IF eo2 # "ok" THEN 1 ELSE 0))
                              * EmbeddingRequests(generated_text)])
    ELSE w

\* lines 175-178: the two lookups, joined, are one message of the chain
RagMessage(fs, generated_text, eo, eo2) ==
    create_message_entry("user",
        get_relevant_context_for_prompt(fs, generated_text, eo, "articles", 3)
        \o <<"\n\n">>
        \o get_relevant_context_for_prompt(fs, generated_text, eo2, "tags", 3))

\* a chain that sends each stage its instruction without the turns before
NextStagePrompts_NoHistory(w, generated_text, eo, eo2) ==
    LET k     == w.t.k
        reply == create_message_entry("assistant", <<generated_text>>)
    IN  World(w.fs, [w.t EXCEPT
            !.all_prompts =
                @ \o (IF k = 1 /\ cfg.rag
                      THEN <<RagMessage(w.fs, generated_text, eo, eo2)>> ELSE <<>>)
                  \o (IF k + 1 < SummaryCalls THEN <<StageInstruction(k + 1)>>
                      ELSE <<>>),
            !.all_generated =
                Append(@, reply)
                \o (IF k + 1 < SummaryCalls THEN <<>> ELSE <<merge_prompt>>)])

\* the k-th stage has its text: lines 168-178 and 202-204, then the
\* instruction of the next stage (lines 183-191) or the merge prompt (211)
NextStagePrompts(w, generated_text, eo, eo2) ==
    LET k     == w.t.k
        reply == create_message_entry("assistant", <<generated_text>>)
    IN  World(w.fs, [w.t EXCEPT
            !.all_prompts =
                Append(@, reply)
                \o (IF k = 1 /\ cfg.rag
                    THEN <<RagMessage(w.fs, generated_text, eo, eo2)>> ELSE <<>>)
                \o (IF k + 1 < SummaryCalls THEN <<StageInstruction(k + 1)>>
                    ELSE <<>>),
            !.all_generated =
                Append(@, reply)
                \o (IF k + 1 < SummaryCalls THEN <<>> ELSE <<merge_prompt>>)])

\* the messages of the call a task awaits: the merge call is made with
\* all_generated (line 214), the others with all_prompts
Sent(t) ==
    IF t.pc = "summary" /\ t.k = SummaryCalls THEN t.all_generated ELSE t.all_prompts

\* the chain caching what it has when a step fails
ResumeSummary_SavesPartial(w, res, eo, eo2) ==
    IF w.t.k < SummaryCalls
    THEN IF res.value = None \/ res.value = ""
         THEN Finish(World(WriteFile(w.fs, PaperPath(w.t), SUMMARIZED_MD_FILE, ""),
                           w.t), "none", "summary")
         ELSE Await(NextStagePrompts(RagLookups(w, res.value, eo, eo2), res.value,
                                     eo, eo2),
                    "summary", w.t.k + 1)
    ELSE IF res.value = None
         THEN Finish(w, "none", "summary")
         ELSE LET s == EmbedAndSave(w, SUMMARIZED_MD_FILE, res.value, eo)
              IN  IF s.raised THEN Finish(s.w, "raised", "summary")
                  ELSE EnterShort(World(s.w.fs,
                                        [Leave(s.w.t) EXCEPT !.summary = s.content]))

\* one gateway call of the chain has returned: lines 164-166, 199-201 and
\* 220-232, then the caller's lines 379-381
ResumeSummary(w, res, eo, eo2) ==
    IF w.t.k < SummaryCalls
    THEN IF res.value = None \/ res.value = ""      \* if not generated_text
         THEN Finish(w, "none", "summary")
         ELSE Await(NextStagePrompts(RagLookups(w, res.value, eo, eo2), res.value,
                                     eo, eo2),
                    "summary", w.t.k + 1)
    ELSE IF res.value = None                        \* if generated_text is None
         THEN Finish(w, "none", "summary")
         ELSE LET s == EmbedAndSave(w, SUMMARIZED_MD_FILE, res.value, eo)
              IN  IF s.raised THEN Finish(s.w, "raised", "summary")
                  ELSE EnterShort(World(s.w.fs,
                                        [Leave(s.w.t) EXCEPT !.summary = s.content]))

\* the intake embedding and saving a placeholder when extracted.md is absent
StartArticle_FillsMissing(fs, t0, eo) ==
    LET t       == [t0 EXCEPT !.pre = Listing(fs, Dir(DOCS_DIR, t0.dir))]
        old     == Dir(DOCS_DIR, t.dir)
        new     == Dir(DOCS_DIR, t.slug)
        renamed == IF t.dir # t.slug THEN RenameDir(fs, old, new) ELSE Returned(fs)
    IN  IF renamed.raised
        THEN Finish(World(fs, t), "raised", "rename")
        ELSE LET t1   == [t EXCEPT !.home = IF t.dir # t.slug THEN t.slug ELSE t.dir]
                 fs1  == ensure_dir_exists(renamed.fs, PaperPath(t))
                 obj  == load_text_and_embedding(fs1, PaperPath(t), EXTRACTED_MD_FILE)
             IN  IF ~obj.some
                 THEN Finish(EmbedAndSave(World(fs1, t1), EXTRACTED_MD_FILE,
                                          OldText, "ok").w,
                             "none", "extracted")
                 ELSE EnterSummary(World(fs1, [t1 EXCEPT !.extracted = obj]))

\* aprocess_article from its entry to the summary stage, lines 326-363
StartArticle(fs, t0, eo) ==
    LET t       == [t0 EXCEPT !.pre = Listing(fs, Dir(DOCS_DIR, t0.dir))]
        old     == Dir(DOCS_DIR, t.dir)
        new     == Dir(DOCS_DIR, t.slug)
        renamed == IF t.dir # t.slug THEN RenameDir(fs, old, new) ELSE Returned(fs)
    IN  IF renamed.raised
        THEN Finish(World(fs, t), "raised", "rename")
        ELSE LET t1   == [t EXCEPT !.home = IF t.dir # t.slug THEN t.slug ELSE t.dir]
                 fs1  == ensure_dir_exists(renamed.fs, PaperPath(t))
                 obj  == load_text_and_embedding(fs1, PaperPath(t), EXTRACTED_MD_FILE)
             IN  IF ~obj.some
                 THEN \* os.path.exists(md_path_only) repeats the test load made
                      Finish(World(fs1, t1), "none", "extracted")
                 ELSE EnterSummary(World(fs1, [t1 EXCEPT !.extracted = obj]))

\* eo answers the first embedding request the step makes and eo2 the second
ResumeArticle(w, res, eo, eo2) ==
    CASE w.t.pc = "summary" -> ResumeSummary(w, res, eo, eo2)
      [] w.t.pc = "short"   -> ResumeShort(w, res, eo)
      [] w.t.pc = "tldr"    -> ResumeTldr(w, res, eo)
      [] w.t.pc = "tags"    -> ResumeTags(w, res)

-----------------------------------------------------------------------------
(* The tag aggregator (tag_manager.py)                                     *)

Range(seq) == {seq[k] : k \in 1..Len(seq)}

\* F applied to the value of x, with x computed once
Bind(x, F(_)) == CHOOSE out \in {F(v) : v \in {x}} : TRUE

\* list(a_set), line 349: the elements in the order Python iterates over the
\* set, which the hash seed of the run decides: any order
Orders(S) == {f \in [1..Cardinality(S) -> S] : Range(f) = S}

\* the None aprocess_article returns for an article it gave up, as an entry
\* of the list of records
NoRecord == [paper_slug |-> <<>>, paper_path |-> Dir(DOCS_DIR, <<>>), tags |-> <<>>]

\* generate_completion is a coroutine function and tag_manager.py calls it
\* without await (lines 152, 200, 231, 242, 272, 323): what the caller goes
\* on with is a coroutine object. It is not None, it is true in a condition,
\* it has none of the methods of str, and the request it stands for is
\* never made
CoroutineObject == "<coroutine object generate_completion>"

AggValue == CoroutineObject

\* what a function of the aggregator hands back: a list, None, or an
\* exception it lets go
TagsReturned(tags) == [raised |-> "none", some |-> TRUE, tags |-> tags]
NoneReturned       == [raised |-> "none", some |-> FALSE, tags |-> <<>>]
TagsRaised(kind)   == [raised |-> kind, some |-> FALSE, tags |-> <<>>]

\* prune_tags, lines 270-287: "if pruned" holds of the coroutine object, and
\* pruned.split raises AttributeError
prune_tags(tags) ==
    LET pruned == AggValue
    IN  IF pruned # None /\ pruned # ""
        THEN TagsRaised("AttributeError")
        ELSE TagsReturned([k \in 1..Len(tags) |-> slugify(Strip(tags[k], " "))])

\* update_tags, lines 321-330: output is not None, and _str_to_list iterates
\* over it (line 47), which raises TypeError
update_tags ==
    LET output == AggValue
    IN  IF output = None THEN NoneReturned
        ELSE TagsRaised("TypeError")

TagInfo(name, tag_slug, description, survey, related_paper_slugs) ==
    [name |-> name, tag_slug |-> tag_slug, description |-> description,
     survey |-> survey, related_paper_slugs |-> related_paper_slugs]

\* _GLOBAL_TAG_STORE[key] = info
Register(store, key, info) ==
    [k \in DOMAIN store \cup {key} |-> IF k = key THEN info ELSE store[k]]

\* a lookup that loads from disk and registers anew on every call
get_or_create_tag_info_Reloads(fs, store, tag_name) ==
    LET tag_slug == slugify(tag_name)
        tag_dir  == Dir(TAGS_DIR, tag_slug)
        fs1      == ensure_dir_exists(fs, tag_dir)
        description_content ==
            load_text_and_embedding(fs1, tag_dir, TAG_DESCRIPTION_MD_FILE)
        survey_content ==
            load_text_and_embedding(fs1, tag_dir, TAG_SURVEY_MD_FILE)
    IN  [fs |-> fs1,
         store |-> Register(store, tag_slug,
                       TagInfo(tag_name, tag_slug, description_content,
                               survey_content, <<>>)),
         tag_slug |-> tag_slug]

\* lines 51-92
get_or_create_tag_info(fs, store, tag_name) ==
    LET tag_slug == slugify(tag_name)
        tag_dir  == Dir(TAGS_DIR, tag_slug)
    IN  Bind(ensure_dir_exists(fs, tag_dir), LAMBDA fs1 :
            IF tag_slug \in DOMAIN store
            THEN [fs |-> fs1, store |-> store, tag_slug |-> tag_slug]
            ELSE LET description_content ==
                         load_text_and_embedding(fs1, tag_dir, TAG_DESCRIPTION_MD_FILE)
                     survey_content ==
                         load_text_and_embedding(fs1, tag_dir, TAG_SURVEY_MD_FILE)
                 IN  [fs |-> fs1,
                      store |-> Register(store, tag_slug,
                                    TagInfo(tag_name, tag_slug, description_content,
                                            survey_content, <<>>)),
                      tag_slug |-> tag_slug])

\* the tags of the articles that have any: lines 343-348
AllTags(arts) == UNION {Range(arts[k].tags) : k \in 1..Len(arts)}

RECURSIVE PrepareTags(_, _, _)
\* lines 375-376: for tag in all_tags: get_or_create_tag_info(human_readable_slugify(tag))
PrepareTags(fs, store, all_tags) ==
    IF all_tags = <<>> THEN [fs |-> fs, store |-> store]
    ELSE Bind(get_or_create_tag_info(fs, store,
                                     human_readable_slugify(Head(all_tags))),
              LAMBDA r : PrepareTags(r.fs, r.store, Tail(all_tags)))

RECURSIVE LinkArticles(_, _, _, _)
\* lines 377-380: every tag of every article gets the article's slug appended;
\* _GLOBAL_TAG_STORE[tag_name_slug] raises KeyError on a tag that is no key
LinkArticles(store, arts, k, n) ==
    IF k > Len(arts) THEN [store |-> store, raised |-> FALSE]
    ELSE IF n > Len(arts[k].tags) THEN LinkArticles(store, arts, k + 1, 1)
    ELSE LET tag_name_slug == arts[k].tags[n]
         IN  IF tag_name_slug \notin DOMAIN store
             THEN [store |-> store, raised |-> TRUE]
             ELSE Bind([store EXCEPT ![tag_name_slug].related_paper_slugs =
                                         Append(@, arts[k].paper_slug)],
                       LAMBDA linked : LinkArticles(linked, arts, k, n + 1))

\* a call of generate_completion made by the aggregator
Call(kind, art, tag) == [kind |-> kind, art |-> art, tag |-> tag]

Logged(a, kind, art, tag) == [a EXCEPT !.log = Append(@, Call(kind, art, tag))]

\* an exception leaves process_all_tags_iteratively
AggRaised(a, kind) == [a EXCEPT !.pc = "raised", !.raised = kind]

\* the aggregation as it goes: the disk, the registry, the records and the
\* locals of process_all_tags_iteratively
AggRun(fs, store, arts, a) == [fs |-> fs, store |-> store, arts |-> arts, agg |-> a]

\* lines 375-380: the tags are prepared and the articles linked to them
PrepareAndLink(r) ==
    Bind(PrepareTags(r.fs, r.store, r.agg.all_tags), LAMBDA prepared :
        Bind(LinkArticles(prepared.store, r.arts, 1, 1), LAMBDA linked :
            AggRun(prepared.fs, linked.store, r.arts,
                   IF linked.raised THEN AggRaised(r.agg, "KeyError")
                   ELSE [r.agg EXCEPT !.pc = "pick", !.n = 0])))

\* lines 340-352, and on to line 380 when the tags are not rebuilt; all_tags
\* is the list line 349 makes of the set. article.get of line 345 raises
\* AttributeError on an entry that is None
StartTags(r, all_tags) ==
    LET a0 == [r.agg EXCEPT
                  !.had = {k \in 1..Len(r.arts) : r.arts[k].tags # <<>>},
                  !.vocab = AllTags(r.arts), !.all_tags = all_tags]
    IN  IF \E k \in 1..Len(r.arts) : r.arts[k] = NoRecord
        THEN AggRun(r.fs, r.store, r.arts, AggRaised(r.agg, "AttributeError"))
        ELSE IF cfg.rebuildTags
        THEN AggRun(r.fs, r.store, r.arts, [a0 EXCEPT !.pc = "prune"])
        ELSE Bind(AggRun(r.fs, r.store, r.arts, a0), PrepareAndLink)

\* line 353: all_tags = prune_tags(all_tags). The call raises on every
\* list, so lines 354-372 (update_tags for every article, tags.json written,
\* the vocabulary collected again) are not reached
PruneTags(r) ==
    LET pruned == prune_tags(r.agg.all_tags)
        a1     == [Logged(r.agg, "prune", 0, <<>>) EXCEPT !.pruned = pruned]
    IN  AggRun(r.fs, r.store, r.arts, AggRaised(a1, pruned.raised))

\* the first related paper from the j-th on whose summary loads, 0 if none:
\* lines 213-218
NextRelated(fs, related, j) ==
    LET loads(k) == load_text_and_embedding(fs, Dir(DOCS_DIR, related[k]),
                                            SUMMARIZED_MD_FILE).some
    IN  IF \E k \in j..Len(related) : loads(k)
        THEN CHOOSE k \in j..Len(related) :
                 loads(k) /\ \A m \in j..(k - 1) : ~loads(m)
        ELSE 0

\* lines 183-197: the previous survey, or "N/A", and the instruction for the
\* introduction
SurveyIntroPrompts(info) ==
    LET previous_survey_text == IF info.survey.some THEN info.survey.content ELSE "N/A"
    IN  <<create_message_entry("user",
              <<"<!-- Previous Survey -->\n\n", previous_survey_text,
                "\n\n<!-- End Previous Survey -->">>),
          create_message_entry("user",
              <<"Generate the introduction part of the survey. Fill in the blanks(square bracket]). Template: \n\n",
                "prompts/tag_survey/prelogue.md">>)>>

\* lines 219-230: the template of the first message has no field, so the
\* summary passed as content= is not part of it
article_prompt ==
    <<create_message_entry("user", <<"<!-- This is the paper summary -->">>),
      create_message_entry("user",
          <<"Generate the 'Related Articles' part of the survey. Fill in the blanks(square bracket]). Template: \n\n",
            "prompts/tag_survey/_article1.md">>)>>

\* line 232: all_prompts + article_prompt
ArticleCall(a) ==
    a.all_prompts \o article_prompt

\* lines 242-250
FinalCall(a) ==
    a.all_prompts \o a.article_infos
    \o <<create_message_entry("user",
            <<"Generate the final survey text based on the provided articles.">>)>>

\* the survey goes to its next related paper, or to its final call
ContinueSurvey(fs, store, a, j) ==
    LET k == NextRelated(fs, store[a.cur].related_paper_slugs, j)
    IN  IF k # 0 THEN [a EXCEPT !.pc = "survey_article", !.j = k, !.sent = ArticleCall(a)]
        ELSE [a EXCEPT !.pc = "survey_final", !.j = 0, !.sent = FinalCall(a)]

\* lines 381-384 for the next tag of all_tags, through process_tag (95-103)
\* into generate_tag_survey up to its first call (169-199)
NextTag(r) ==
    LET tag == r.agg.all_tags[r.agg.n + 1]
    IN  Bind(get_or_create_tag_info(r.fs, r.store, tag), LAMBDA r1 :
        Bind(r1.store[r1.tag_slug], LAMBDA info :
        Bind(ensure_dir_exists(r1.fs, Dir(TAGS_DIR, info.tag_slug)), LAMBDA fs2 :
        Bind(get_or_create_tag_info(fs2, r1.store, info.name), LAMBDA r2 :
            AggRun(r2.fs, r2.store, r.arts,
                   [r.agg EXCEPT
                       !.pc = "survey_intro", !.cur = r2.tag_slug,
                       !.n = @ + 1, !.j = 0,
                       !.all_prompts = SurveyIntroPrompts(r2.store[r2.tag_slug]),
                       !.article_infos = <<>>,
                       !.sent = SurveyIntroPrompts(r2.store[r2.tag_slug])])))))

\* lines 200-209: the introduction call is made; what it gives is not None
\* (line 206) and becomes the assistant turn of the conversation
SurveyIntro(r) ==
    LET tag_introduction_part == AggValue
        a1 == Logged(r.agg, "survey_intro", 0, r.agg.cur)
    IN  AggRun(r.fs, r.store, r.arts,
               ContinueSurvey(r.fs, r.store,
                   [a1 EXCEPT !.all_prompts =
                        Append(@, create_message_entry("assistant",
                                      <<tag_introduction_part>>))],
                   1))

\* lines 231-240: the call for one related paper is made; what it gives is
\* not None (line 237) and is kept as the paragraph of the paper
SurveyArticle(r) ==
    LET response == AggValue
        a1 == [Logged(r.agg, "survey_article", r.agg.j, r.agg.cur) EXCEPT
                  !.article_infos =
                      Append(@, create_message_entry("assistant", <<response>>))]
    IN  AggRun(r.fs, r.store, r.arts,
               ContinueSurvey(r.fs, r.store, a1, r.agg.j + 1))

\* lines 242-262: the final call is made; "if survey_text" holds of the
\* coroutine object, and get_embedding(survey_text) raises AttributeError in
\* text.strip() (openai_utils.py, line 123) before it counts a call
SurveyFinal(r) ==
    AggRun(r.fs, r.store, r.arts,
           AggRaised(Logged(r.agg, "survey_final", 0, r.agg.cur), "AttributeError"))

\* line 386: all_tags is through; the function returns None
FinishTags(r) == AggRun(r.fs, r.store, r.arts, [r.agg EXCEPT !.pc = "done"])

\* the step process_all_tags_iteratively takes next
TagsStep(r) ==
    CASE r.agg.pc = "prune"          -> PruneTags(r)
      [] r.agg.pc = "pick"           -> IF r.agg.n < Len(r.agg.all_tags)
                                        THEN NextTag(r) ELSE FinishTags(r)
      [] r.agg.pc = "survey_intro"   -> SurveyIntro(r)
      [] r.agg.pc = "survey_article" -> SurveyArticle(r)
      [] r.agg.pc = "survey_final"   -> SurveyFinal(r)

RECURSIVE RunTags(_)
\* the function has no await: once called it runs to its return or to the
\* exception that leaves it
RunTags(r) ==
    IF r.agg.pc \in {"raised", "done"} THEN r ELSE Bind(TagsStep(r), RunTags)

\* process_all_tags_iteratively, lines 333-386
process_all_tags_iteratively(fs, store, all_articles, all_tags) ==
    Bind(AggRun(fs, store, all_articles, IdleAgg), LAMBDA r :
        Bind(StartTags(r, all_tags), RunTags))

-----------------------------------------------------------------------------
(* Spec: main() over a vault of paper directories                          *)

MaxPapers == 2
MaxFaults == 1

PaperNames == {<<"a">>, <<"a", "_", "b">>, <<"a", "-", "b">>}

\* what a paper directory holds when the run starts
Presets == {"empty", "fresh", "summarized", "warm"}

PresetFiles(preset) ==
    CASE preset = "empty"      -> {}
      [] preset = "fresh"      -> {"extracted.md"}
      [] preset = "summarized" -> {"extracted.md", "extracted.npz",
                                   "summarized.md", "summarized.npz"}
      [] preset = "warm"       -> ArtifactFiles

InitialData(f) ==
    IF f = TAGS_JSON_FILE THEN OldTags
    ELSE IF f \in ArtifactNames THEN OldText
    ELSE VecOf(OldText)

VaultFiles(layout) ==
    LET paths == {[root |-> DOCS_DIR, name |-> n, file |-> f] :
                     n \in DOMAIN layout, f \in ArtifactFiles}
    IN  [p \in {q \in paths : q.file \in PresetFiles(layout[q.name])} |->
            InitialData(p.file)]

\* the placeholder paper main() creates in an empty vault
DummyPaper == <<"b">>

\* discover_papers: the directories of vault/docs that hold extracted.md,
\* in the order os.listdir gives them
discover_papers(fs) ==
    SelectSeq(Listdir(fs, DOCS_DIR),
              LAMBDA n : Exists(fs, Dir(DOCS_DIR, n), EXTRACTED_MD_FILE))

\* the orders in which the disk may list its entries: one order for
\* vault/docs (main.py:23, vector_store.py:46) and one for vault/tags
\* (vector_store.py:63), chosen apart
Listings(fs) ==
    LET names(root) == {d.name : d \in {e \in fs.dirs : e.root = root}}
    IN  {[root \in {DOCS_DIR, TAGS_DIR} |-> IF root = DOCS_DIR THEN docs ELSE tags] :
            docs \in Orders(names(DOCS_DIR)), tags \in Orders(names(TAGS_DIR))}

\* os.listdir is called in a step that looks up the related articles (line
\* 175): the first reply of the summary chain has come, and RAG is on
ListingsRead(t, o) ==
    IF cfg.rag /\ t.pc = "summary" /\ t.k = 1 /\ o = "ok" THEN Listings(CurFS)
    ELSE {<<>>}

\* main() up to asyncio.gather, lines 42-83: a task per paper found, created
\* in the order of the list (pos)
MainDiscover(ls) ==
    LET fs0   == ensure_root_exists(ensure_root_exists(Listed(CurFS, ls), DOCS_DIR),
                                    TAGS_DIR)
        found == discover_papers(fs0)
        fs1   == IF found = <<>>
                 THEN LET made == ensure_dir_exists(fs0, Dir(DOCS_DIR, DummyPaper))
                      IN  IF Exists(made, Dir(DOCS_DIR, DummyPaper), EXTRACTED_MD_FILE)
                          THEN made
                          ELSE WriteFile(made, Dir(DOCS_DIR, DummyPaper),
                                         EXTRACTED_MD_FILE, OldText)
                 ELSE fs0
    IN  /\ mainPc = "start"
        /\ SetFS(fs1)
        /\ task' = [d \in Range(found) |->
                       [NewTask(d) EXCEPT
                           !.pos = CHOOSE k \in 1..Len(found) : found[k] = d]]
        /\ mainPc' = "gather"
        /\ reporter' = Reporter("scheduled", FALSE, TRUE)     \* lines 42-53
        /\ UNCHANGED <<cfg, usage, probe, tagVars, storeRes, mainRes, faults, gateVars>>

\* run_print_consumption runs for the first time, when main() first yields
\* to the event loop (gather of at least one task): it prints the table and
\* suspends in asyncio.sleep. Its later rounds change nothing.
ReporterRun ==
    /\ mainPc = "gather"
    /\ DOMAIN task # {}
    /\ reporter.pc = "scheduled"
    /\ ~reporter.must_cancel
    /\ reporter' = [reporter EXCEPT !.pc = "sleeping"]
    /\ UNCHANGED <<cfg, usage, probe, tagVars, fsVars, storeRes, pipeVars, gateVars>>

EmbOutcomes == {"ok", "fail"}

\* a task suspended in the request of generate_completion
Awaiting(t) == t.pc \in {"summary", "short", "tldr", "tags"}

\* the embedding requests a step made and those of them that failed
EmbeddingsOf(before, after) == after.nemb - before.nemb
EmbeddingFailsOf(before, after) ==
    (after.embFails - before.embFails) + (after.ragFails - before.ragFails)

\* 1 for a step in which the provider let the task down: the completion
\* request that returned had failed or brought no text, or an embedding
\* request the step went on to make failed
FaultsOf(o, before, after) ==
    IF o # "ok" \/ EmbeddingFailsOf(before, after) > 0 THEN 1 ELSE 0

\* eo and eo2 are inputs of a step only as far as it makes embedding requests
EmbeddingUsed(eo, eo2, before, after) ==
    /\ eo = "ok" \/ EmbeddingsOf(before, after) >= 1
    /\ eo2 = "ok" \/ EmbeddingsOf(before, after) >= 2

RECURSIVE CountEmbeddings(_, _, _)
\* get_embedding, lines 128-144, for n requests of which the last `failed`
\* raised: each is counted as a call, the answered ones add their tokens
CountEmbeddings(u, n, failed) ==
    IF n = 0 THEN u
    ELSE CountEmbeddings(
             IF n > failed
             THEN CountTokens(CountCall(u, EMBEDDING_MODEL), EMBEDDING_MODEL,
                              EmbeddingUsage)
             ELSE CountCall(u, EMBEDDING_MODEL),
             n - 1, failed)

\* the counters after a step of a task. The streamed reply that came back
\* adds its tokens unless the request raised (openai_utils.py, lines
\* 296-303); the embedding requests are counted; the request the task is
\* suspended in at the end of the step is counted as a call (lines 267-269)
StepUsage(u, o, returned, before, after) ==
    LET u1 == IF returned /\ o \in {"ok", "empty"}
              THEN CountTokens(u, MODEL_DEFAULT, ReplyUsage) ELSE u
        u2 == CountEmbeddings(u1, EmbeddingsOf(before, after),
                              EmbeddingFailsOf(before, after))
    IN  IF Awaiting(after) THEN CountCall(u2, MODEL_DEFAULT) ELSE u2

\* "async with semaphore" (line 249): the slot of the call that returned is
\* given back, and one is taken for the call the task is suspended in.
\* MAX_CONCURRENT is above the number of tasks, so a slot is free
StepSlots(n, returned, after) ==
    n + (IF returned THEN 1 ELSE 0) - (IF Awaiting(after) THEN 1 ELSE 0)

\* asyncio.gather: the results are kept by the place of their task until a
\* task raises; gather then has its exception and no list to return, and
\* the place of a task that has run is of no use
Gather(tasks) ==
    IF \E b \in DOMAIN tasks : tasks[b].result = "raised"
    THEN [b \in DOMAIN tasks |->
             IF tasks[b].pc = "new" THEN tasks[b] ELSE [tasks[b] EXCEPT !.pos = 0]]
    ELSE tasks

\* a task runs from its creation to its first suspension; the loop runs the
\* tasks for the first time in the order gather created them
TaskStart(a, eo) ==
    LET w == StartArticle(CurFS, task[a], eo)
    IN  /\ mainPc = "gather"
        /\ reporter.pc # "scheduled"       \* created first, it is first to run
        /\ task[a].pc = "new"
        /\ \A b \in DOMAIN task : task[b].pos < task[a].pos => task[b].pc # "new"
        /\ EmbeddingUsed(eo, "ok", task[a], w.t)
        /\ faults + FaultsOf("ok", task[a], w.t) <= MaxFaults
        /\ faults' = faults + FaultsOf("ok", task[a], w.t)
        /\ SetFS(w.fs)
        /\ task' = Gather([task EXCEPT ![a] = w.t])
        /\ usage' = StepUsage(usage, "ok", FALSE, task[a], w.t)
        /\ sem' = StepSlots(sem, FALSE, w.t)
        /\ UNCHANGED <<cfg, reporter, probe, tagVars, storeRes, mainPc, mainRes,
                       waiters, caller, loopOwner>>

\* the completion call a task awaits returns, and the task runs on to its
\* next suspension or to its end. A task goes on running while main() is
\* suspended in the await of its finally block (main.py, line 102). The
\* tasks gather created are all in the loop's ready queue when main() is
\* suspended, and the loop polls for replies only once it has run the first
\* step of each: no call returns while a task has yet to start. When main()
\* has ended the loop of asyncio.run (line 108) stops after the callbacks
\* that are due: a task whose reply has come in runs once more (late), and
\* the reply to the request it then sends is not seen by the loop. ls is
\* the order in which os.listdir gives the directories during the step
TaskResume(a, o, eo, eo2, ls) ==
    LET res == generate_completion(cfg.stream, cfg.thinking, cfg.maxConcurrent, o)
        w   == ResumeArticle(World(Listed(CurFS, ls), task[a]), res, eo, eo2)
        t   == [w.t EXCEPT !.late = mainPc = "finished" /\ Awaiting(w.t)]
    IN  /\ mainPc \in {"gather", "join", "finished"}
        /\ ~task[a].late
        /\ \A b \in DOMAIN task : task[b].pc # "new"
        /\ Awaiting(task[a])
        /\ EmbeddingUsed(eo, eo2, task[a], w.t)
        /\ faults + FaultsOf(o, task[a], w.t) <= MaxFaults
        /\ faults' = faults + FaultsOf(o, task[a], w.t)
        /\ SetFS(w.fs)
        /\ task' = Gather([task EXCEPT ![a] = t])
        /\ usage' = StepUsage(usage, o, TRUE, task[a], w.t)
        /\ sem' = StepSlots(sem, TRUE, w.t)
        /\ UNCHANGED <<cfg, reporter, probe, tagVars, storeRes, mainPc, mainRes,
                       waiters, caller, loopOwner>>

\* the finally block up to its await, lines 99-100
StopReporter(r) == [r EXCEPT !.running = FALSE, !.must_cancel = TRUE]

\* gather re-raises the first exception of a task to main(), which goes
\* through its finally block up to the await of line 102. gather started
\* every task before main() was suspended in it, and cancels none of them
MainGatherRaises ==
    /\ mainPc = "gather"
    /\ \E a \in DOMAIN task : task[a].result = "raised"
    /\ \A a \in DOMAIN task : task[a].pc # "new"
    /\ mainPc' = "join"
    /\ mainRes' = "raised"
    /\ reporter' = StopReporter(reporter)
    /\ UNCHANGED <<cfg, usage, probe, tagVars, fsVars, storeRes, task, faults, gateVars>>

\* the record aprocess_article returned, as the aggregator reads it
RecordOf(t) ==
    IF t.result = "none" THEN NoRecord
    ELSE [paper_slug |-> t.slug, paper_path |-> PaperPath(t), tags |-> t.tags]

\* the aggregator once main() has its exception: its locals are gone with
\* its frame, how it ended is what stays
Unwound(a) == [IdleAgg EXCEPT !.pc = a.pc, !.raised = a.raised]

\* asyncio.gather returns the results in the order of its arguments
Gathered == [k \in 1..Cardinality(DOMAIN task) |->
                RecordOf(task[CHOOSE a \in DOMAIN task : task[a].pos = k])]

\* gather returns the list of the records, and main() goes on to its finally
\* block without suspending: lines 84-100. The list holds a None for every
\* article that was given up, and "if processed_articles" holds of every
\* list that is not empty. process_all_tags_iteratively is no coroutine
\* function, so the call of line 91 runs it through: it ends in an
\* exception, or it returns None and "await None" raises TypeError
MainAggregate ==
    LET records == Gathered
    IN  /\ mainPc = "gather"
        /\ \A a \in DOMAIN task : task[a].pc = "done" /\ task[a].result # "raised"
        /\ mainPc' = "join"
        /\ reporter' = StopReporter(reporter)
        /\ IF records = <<>>                                 \* if processed_articles
           THEN /\ mainRes' = "skipped"
                /\ UNCHANGED <<fsVars, tagVars>>
           ELSE \E all_tags \in Orders(AllTags(records)) :
                    \E r \in {process_all_tags_iteratively(CurFS, tagStore, records,
                                                           all_tags)} :
                        /\ mainRes' = "raised"
                        /\ SetFS(r.fs)
                        /\ tagStore' = r.store
                        /\ articles' = r.arts
                        /\ agg' = Unwound(r.agg)
        /\ UNCHANGED <<cfg, usage, probe, storeRes, task, faults, gateVars>>

\* the cancellation reaches the reporter: thrown into its sleep it is caught
\* (lines 50-51) and the coroutine returns; a task that never ran is
\* cancelled without running
ReporterStop ==
    /\ reporter.must_cancel
    /\ reporter.pc \in {"scheduled", "sleeping"}
    /\ reporter' = [reporter EXCEPT !.must_cancel = FALSE,
                                    !.pc = IF @ = "sleeping" THEN "done"
                                           ELSE "cancelled"]
    /\ UNCHANGED <<cfg, usage, probe, tagVars, fsVars, storeRes, pipeVars, gateVars>>

\* a main() that does not await the task it cancelled
Joined_Detached(r) == TRUE

\* await print_consumption_task resumes: the task is done or cancelled
Joined(r) ==
    r.pc \in {"done", "cancelled"}

\* a task cancelled in its await: CancelledError leaves "async with
\* semaphore", which gives the slot back
Cancelled(t) ==
    IF t.pc = "done" THEN t
    ELSE [Leave(t) EXCEPT !.pc = "done", !.result = "cancelled", !.late = FALSE]

\* lines 101-108: main() returns, or lets its exception go on; the tasks
\* that are still running are as they were
MainReturn ==
    /\ mainPc = "join"
    /\ Joined(reporter)
    /\ mainPc' = "finished"
    /\ UNCHANGED <<cfg, usage, reporter, probe, tagVars, fsVars, storeRes,
                   task, mainRes, faults, gateVars>>

\* asyncio.run (line 108), once its loop has stopped: it cancels the tasks
\* that are still running and closes the loop
RunCancels ==
    /\ mainPc = "finished"
    /\ mainPc' = "closed"
    /\ task' = [a \in DOMAIN task |-> Cancelled(task[a])]
    /\ sem' = sem + Cardinality({a \in DOMAIN task : Awaiting(task[a])})
    /\ UNCHANGED <<cfg, usage, reporter, probe, tagVars, fsVars, storeRes,
                   mainRes, faults, waiters, caller, loopOwner>>

\* what the provider does with a request of the pipeline: every failure
\* reaches the pipeline as the same None, so one failure stands for them
PipeOutcomes == {"ok", "empty", "RateLimitError"}

\* the names that are no slugs: their directories are renamed
Renamed(n) == slugify(human_readable_slugify(n)) # n

\* a directory that is renamed is not read again by its task, which goes on
\* under the old path: such a paper starts fresh or finished; and fresh when
\* the directory of its slug is there with files, since the rename then
\* fails before the task has read a file
Layouts ==
    {layout \in UNION {[names -> Presets] :
                          names \in {ns \in SUBSET PaperNames :
                                        Cardinality(ns) <= MaxPapers}} :
        \A n \in DOMAIN layout :
            Renamed(n) =>
                /\ layout[n] \in {"fresh", "warm"}
                /\ \A m \in DOMAIN layout :
                      ( /\ m = slugify(human_readable_slugify(n))
                        /\ layout[m] # "empty" ) => layout[n] = "fresh"}

Init ==
    /\ cfg \in [maxConcurrent : {4}, stream : {TRUE}, thinking : {FALSE},
                rebuild : BOOLEAN, rag : {TRUE}, rebuildTags : {FALSE}]
    /\ \E layout \in Layouts :
          \* a forced rebuild is run on a vault an earlier run has left: its
          \* papers are finished and their directories have their slugs as names
          /\ cfg.rebuild => \A n \in DOMAIN layout :
                               layout[n] \in {"empty", "warm"} /\ ~Renamed(n)
          /\ fsRoots = IF DOMAIN layout = {} THEN {} ELSE {DOCS_DIR}
          /\ fsDirs = {Dir(DOCS_DIR, n) : n \in DOMAIN layout}
          /\ fsFiles = VaultFiles(layout)
    /\ storeRes = NoStoreRes
    /\ task = <<>>
    /\ mainPc = "start"
    /\ mainRes = "none"
    /\ faults = 0
    /\ sem = SemaphoreSlots(cfg.maxConcurrent)
    /\ waiters = <<>>
    /\ caller = <<>>
    /\ loopOwner = 0
    /\ OthersIdle

Next ==
    \/ \E ls \in Listings(CurFS) : MainDiscover(ls)
    \/ \E a \in DOMAIN task, eo \in EmbOutcomes : TaskStart(a, eo)
    \/ \E a \in DOMAIN task, o \in PipeOutcomes, eo, eo2 \in EmbOutcomes :
          \E ls \in ListingsRead(task[a], o) : TaskResume(a, o, eo, eo2, ls)
    \/ MainGatherRaises
    \/ MainAggregate
    \/ ReporterRun
    \/ ReporterStop
    \/ MainReturn
    \/ RunCancels

Spec == Init /\ [][Next]_vars

-----------------------------------------------------------------------------
(* Claims checked under Spec                                               *)

Finished(a) == task[a].pc = "done" /\ task[a].result # "cancelled"

\* the files of the article, in the directory that holds them now
HomeListing(a) == Listing(CurFS, Dir(DOCS_DIR, task[a].home))

WarmAtEntry(a) == ArtifactNames \subseteq DOMAIN task[a].pre

\* C1: with force-rebuild disabled, aprocess_article on a directory that
\* already holds extracted.md, summarized.md, short_summarized.md, tldr.md and
\* tags.json issues no completion call and leaves every artifact's content as
\* it was.
C1_WarmRunIsIdempotent ==
    \A a \in DOMAIN task :
        (Finished(a) /\ ~cfg.rebuild /\ WarmAtEntry(a)) =>
            /\ task[a].ncalls = 0
            /\ HomeListing(a) = task[a].pre

C1_Witness ==
    \E a \in DOMAIN task :
        /\ Finished(a) /\ ~cfg.rebuild /\ WarmAtEntry(a)
        /\ task[a].result = "record"
        /\ task[a].tags = OldTags
        /\ task[a].tldr = Content(OldText, VecOf(OldText))

\* C2: if the short-summary stage fails for an article, aprocess_article still
\* returns a record for it, with the summary populated, tldr None and no tags;
\* the other articles of the batch are not affected.
C2_ShortFailureGivesPartialRecord ==
    \A a \in DOMAIN task :
        (Finished(a) /\ task[a].failed = "short") =>
            /\ task[a].result = "record"
            /\ task[a].summary.some
            /\ ~task[a].tldr.some
            /\ task[a].tags = <<>>

\* C3: when some article of the batch yields no record, main still goes
\* through tag aggregation and ends without an uncaught error.
C3_BatchSurvivesMissingRecords ==
    ( /\ mainPc \in {"finished", "closed"}
      /\ \A a \in DOMAIN task : task[a].dir = task[a].slug
      /\ \E a \in DOMAIN task : task[a].result = "none" ) =>
        mainRes # "raised"

SummaryFilesOf(listing) ==
    [f \in DOMAIN listing \cap {SUMMARIZED_MD_FILE, NpzName(SUMMARIZED_MD_FILE)}
        |-> listing[f]]

\* C7: if a call of the full-summary chain fails, the summary stage returns
\* None and summarized.md and its embedding file are as they were when the
\* stage started.
C7_FailedSummaryWritesNothing ==
    \A a \in DOMAIN task :
        (Finished(a) /\ task[a].failed = "summary") =>
            /\ task[a].result = "none"
            /\ ~task[a].summary.some
            /\ SummaryFilesOf(HomeListing(a)) = SummaryFilesOf(task[a].pre)

C7_Witness ==
    \E a \in DOMAIN task :
        /\ Finished(a) /\ task[a].failed = "summary"
        /\ task[a].ncalls = SummaryCalls
        /\ SUMMARIZED_MD_FILE \in DOMAIN task[a].pre
        /\ HomeListing(a)[SUMMARIZED_MD_FILE] = OldText

\* C8: when extracted.md exists and its embedding file does not, a run of the
\* pipeline persists the embedding file (unless the embedding call itself
\* fails) and leaves extracted.md as it was.
C8_MissingEmbeddingIsHealed ==
    \A a \in DOMAIN task :
        ( /\ Finished(a)
          /\ EXTRACTED_MD_FILE \in DOMAIN task[a].pre
          /\ NpzName(EXTRACTED_MD_FILE) \notin DOMAIN task[a].pre
          /\ task[a].embFails = 0
          /\ task[a].dir = task[a].slug
          /\ task[a].result = "record" ) =>
            /\ NpzName(EXTRACTED_MD_FILE) \in DOMAIN HomeListing(a)
            /\ HomeListing(a)[EXTRACTED_MD_FILE] = task[a].pre[EXTRACTED_MD_FILE]

-----------------------------------------------------------------------------
(* Further claims checked under Spec                                       *)

\* C15: when the directory name differs from the slug of the title,
\* aprocess_article renames the directory and processes the article from the
\* renamed one in the same run: unless a generation stage fails it returns a
\* record, and nothing is left or created under the old name.
C15_RenamedArticleIsProcessed ==
    \A a \in DOMAIN task :
        ( /\ Finished(a)
          /\ task[a].dir # task[a].slug
          /\ task[a].failed \notin {"rename", "summary", "short"} ) =>
            /\ task[a].result = "record"
            /\ Dir(DOCS_DIR, task[a].dir) \notin fsDirs

\* C16: if extracted.md is absent from the article directory,
\* aprocess_article returns no record, makes no completion and no embedding
\* call and writes no artifact.
C16_MissingExtractionIsSkipped ==
    \A a \in DOMAIN task :
        (Finished(a) /\ task[a].failed = "extracted") =>
            /\ task[a].result = "none"
            /\ task[a].ncalls = 0
            /\ task[a].nemb = 0
            /\ DOMAIN Listing(CurFS, PaperPath(task[a])) = {}
            /\ HomeListing(a) = task[a].pre

C16_Witness ==
    \E a \in DOMAIN task :
        /\ Finished(a) /\ task[a].failed = "extracted"
        /\ ~Exists(CurFS, PaperPath(task[a]), EXTRACTED_MD_FILE)
        /\ task[a].result = "none"

\* the stages that embed what they generate, with the file each one writes
StageFile(stage) ==
    CASE stage = "summary" -> SUMMARIZED_MD_FILE
      [] stage = "short"   -> SHORT_SUMMARIZED_MD_FILE
      [] stage = "tldr"    -> TLDR_MD_FILE

StageContent(a, stage) ==
    CASE stage = "summary" -> task[a].summary
      [] stage = "short"   -> task[a].short
      [] stage = "tldr"    -> task[a].tldr

Stages == {"summary", "short", "tldr"}

\* C17: when the embedding call fails for a generated text, the stage still
\* persists the text, returns a Content with embedding None, and the pipeline
\* goes on: with no completion failure the article ends with a record whose
\* stages are all populated and on disk.
C17_EmbeddingFailureIsNotFatal ==
    \A a \in DOMAIN task :
        (Finished(a) /\ task[a].embFails > 0 /\ task[a].failed = "none") =>
            /\ task[a].result = "record"
            /\ \E s \in Stages : StageContent(a, s).vector = None
            /\ \A s \in Stages :
                  /\ StageContent(a, s).some
                  /\ StageFile(s) \in DOMAIN HomeListing(a)
                  /\ HomeListing(a)[StageFile(s)] = StageContent(a, s).content

C17_Witness ==
    \E a \in DOMAIN task :
        /\ Finished(a) /\ task[a].embFails > 0 /\ task[a].failed = "none"
        /\ task[a].short = Content(GenText, None)
        /\ task[a].tldr.some
        /\ task[a].result = "record"

\* C23: main() does not return, on the normal path or on the failing one,
\* until the reporting task it cancelled has terminated; no reporting task is
\* left running afterwards.
C23_ReporterIsJoined ==
    mainPc \in {"finished", "closed"} =>
        /\ reporter.pc \in {"done", "cancelled"}
        /\ ~reporter.running

C23_Witness ==
    /\ mainPc = "finished"
    /\ mainRes = "raised"
    /\ \E a \in DOMAIN task : task[a].result = "raised"
    /\ reporter.pc = "done"

\* C28: after a failed TLDR call the article goes on to tag extraction and
\* returns a record whose tldr is None and whose summary, short summary and
\* tags are those of the run, the tags being the ones saved in tags.json.
C28_TldrFailureIsNotFatal ==
    \A a \in DOMAIN task :
        (task[a].failed = "tldr" /\ task[a].result \notin {"raised", "cancelled"}) =>
            \/ task[a].pc = "tags"
            \/ /\ task[a].pc = "done"
               /\ task[a].result = "record"
               /\ ~task[a].tldr.some
               /\ task[a].summary.some
               /\ task[a].short.some
               /\ Exists(CurFS, PaperPath(task[a]), TAGS_JSON_FILE)
               /\ CurFS.files[File(PaperPath(task[a]), TAGS_JSON_FILE)] = task[a].tags

C28_Witness ==
    \E a \in DOMAIN task :
        /\ task[a].pc = "done" /\ task[a].failed = "tldr"
        /\ task[a].result = "record"
        /\ ~task[a].tldr.some
        /\ task[a].tags # <<>>

HasSentinel(message) ==
    \E i \in 1..Len(message.content) : message.content[i] \in Sentinels

\* C24: when a context lookup returns one of its sentinels, the stage that
\* made it adds no message carrying the sentinel to the prompt it sends.
C24_SentinelIsOmitted ==
    \A a \in DOMAIN task :
        task[a].pc \in {"summary", "tldr"} =>
            \A i \in 1..Len(Sent(task[a])) : ~HasSentinel(Sent(task[a])[i])

\* the tags.json the article had when the run found it, NoTags if none
TagsBefore(t) ==
    IF TAGS_JSON_FILE \in DOMAIN t.pre THEN t.pre[TAGS_JSON_FILE] ELSE NoTags

\* C31: an article that has a tags.json gets an extraction call seeded with
\* those tags unless a rebuild is forced, and under a forced rebuild the
\* extraction call is given no previous tags.
C31_SeedUnlessRebuild ==
    \A a \in DOMAIN task :
        /\ task[a].pc = "tags" =>
              Sent(task[a])[1].content =
                  <<"<!-- This is previous generate tags --> ">>
                  \o FormatTags(IF cfg.rebuild THEN NoTags ELSE TagsBefore(task[a]))
        /\ (task[a].result = "record" /\ ~cfg.rebuild
                /\ TagsBefore(task[a]) # NoTags) => task[a].ncalls > 0

\* C35: a failed tag-extraction call leaves an existing tags.json as the run
\* found it.
C35_FailedExtractionKeepsTags ==
    \A a \in DOMAIN task :
        (task[a].result = "record" /\ task[a].tags = <<>>
            /\ TagsBefore(task[a]) # NoTags) =>
                /\ Exists(CurFS, PaperPath(task[a]), TAGS_JSON_FILE)
                /\ fsFiles[File(PaperPath(task[a]), TAGS_JSON_FILE)]
                       = TagsBefore(task[a])

\* the text artifacts the generation stages write
GeneratedNames == {SUMMARIZED_MD_FILE, SHORT_SUMMARIZED_MD_FILE, TLDR_MD_FILE}

\* C36: no generation stage persists an artifact with empty text.
C36_NoEmptyArtifact ==
    \A p \in DOMAIN fsFiles : p.file \in GeneratedNames => fsFiles[p] # ""

\* C27: the chain's calls go out in the order prelogue, pass1, pass2, pass3,
\* epilogue, merge, each after the one before has returned; the call of the
\* k-th stage ends with that stage's instruction and holds the instruction
\* of every earlier stage, in order, each followed by the text generated for
\* it as an assistant turn; the merge call holds the five texts.
C27_ChainIsSequential ==
    \A a \in DOMAIN task :
        task[a].pc = "summary" =>
            LET k     == task[a].k
                sent  == Sent(task[a])
                reply == create_message_entry("assistant", <<GenText>>)
                at(i) == CHOOSE p \in 1..Len(sent) : sent[p] = StageInstruction(i)
            IN  /\ k \in 1..SummaryCalls
                /\ IF k < SummaryCalls
                   THEN /\ \A i \in 1..(SummaryCalls - 1) :
                             Cardinality({p \in 1..Len(sent) :
                                             sent[p] = StageInstruction(i)})
                                 = (IF i <= k THEN 1 ELSE 0)
                        /\ at(k) = Len(sent)
                        /\ \A i \in 1..(k - 1) :
                             /\ at(i) < at(i + 1)
                             /\ sent[at(i) + 1] = reply
                        /\ Turns(sent, "assistant") = [i \in 1..(k - 1) |-> reply]
                   ELSE sent = [i \in 1..(SummaryCalls - 1) |-> reply]
                               \o <<merge_prompt>>

C27_Witness ==
    \E a \in DOMAIN task :
        /\ task[a].pc = "summary"
        /\ task[a].k = SummaryCalls - 1
        /\ Len(Turns(task[a].all_prompts, "assistant")) = SummaryCalls - 2
        /\ task[a].ncalls = SummaryCalls - 1

-----------------------------------------------------------------------------
(* SpecTags: process_all_tags_iteratively over a list of article records   *)

MaxArticles == 2

\* the tag lists a record may carry: none, one tag, the same tag twice (the
\* tag-extraction reply is not deduplicated), two tags, a tag with an
\* underscore (slugify keeps it)
TagLists ==
    {<<>>, <<(<<"a">>)>>, <<(<<"a">>), (<<"a">>)>>, <<(<<"a">>), (<<"b">>)>>,
     <<(<<"a", "_", "b">>)>>}

\* the slug of the k-th record: "a", "aa", ...
PaperSlug(k) == [n \in 1..k |-> "a"]

\* what aprocess_article returns, as far as the aggregator reads it
Article(k, tags) ==
    [paper_slug |-> PaperSlug(k), paper_path |-> Dir(DOCS_DIR, PaperSlug(k)),
     tags |-> tags]

ArticleLists ==
    UNION {{[k \in 1..n |-> Article(k, tl[k])] : tl \in [1..n -> TagLists]} :
              n \in 0..MaxArticles}

\* what aprocess_article left on disk for the records
RecordFiles(arts) ==
    LET paths == {File(arts[k].paper_path, f) :
                     k \in 1..Len(arts), f \in {SUMMARIZED_MD_FILE, TAGS_JSON_FILE}}
    IN  [p \in paths |->
            IF p.file = TAGS_JSON_FILE
            THEN arts[CHOOSE k \in 1..Len(arts) :
                          arts[k].paper_path.name = p.name].tags
            ELSE OldText]

AggStep(r) ==
    /\ SetFS(r.fs)
    /\ tagStore' = r.store
    /\ articles' = r.arts
    /\ agg' = r.agg
    /\ UNCHANGED <<cfg, usage, reporter, storeRes, pipeVars, gateVars, probe>>

\* the run as the variables hold it
CurTags == AggRun(CurFS, tagStore, articles, agg)

\* lines 340-352, and on to line 380 when tags are not rebuilt
AggStart ==
    /\ agg.pc = "idle"
    /\ \E all_tags \in Orders(AllTags(articles)) :
          \E r \in {StartTags(CurTags, all_tags)} : AggStep(r)

\* line 353: prune_tags is called
AggPrune ==
    /\ agg.pc = "prune"
    /\ \E r \in {PruneTags(CurTags)} : AggStep(r)

\* lines 381-384: the loop over all_tags takes its next tag
AggNextTag ==
    /\ agg.pc = "pick"
    /\ agg.n < Len(agg.all_tags)
    /\ \E r \in {NextTag(CurTags)} : AggStep(r)

\* lines 200-209: the introduction call of the survey
AggSurveyIntro ==
    /\ agg.pc = "survey_intro"
    /\ \E r \in {SurveyIntro(CurTags)} : AggStep(r)

\* lines 231-240: the call for one related paper
AggSurveyArticle ==
    /\ agg.pc = "survey_article"
    /\ \E r \in {SurveyArticle(CurTags)} : AggStep(r)

\* lines 242-255: the final call of the survey and the embedding of what
\* it gave
AggSurveyFinal ==
    /\ agg.pc = "survey_final"
    /\ \E r \in {SurveyFinal(CurTags)} : AggStep(r)

\* line 386: the loop over all_tags is through
AggFinish ==
    /\ agg.pc = "pick"
    /\ agg.n = Len(agg.all_tags)
    /\ \E r \in {FinishTags(CurTags)} : AggStep(r)

InitTags ==
    /\ cfg \in {[DefaultCfg EXCEPT !.rebuildTags = b] : b \in BOOLEAN}
    /\ articles \in ArticleLists
    /\ fsRoots = {DOCS_DIR, TAGS_DIR}
    /\ fsDirs = {articles[k].paper_path : k \in 1..Len(articles)}
    /\ fsFiles = RecordFiles(articles)
    /\ storeRes = NoStoreRes
    /\ task = <<>>
    /\ mainPc = "aggregate"
    /\ mainRes = "none"
    /\ faults = 0
    /\ sem = 0
    /\ caller = <<>>
    /\ waiters = <<>>
    /\ loopOwner = 0
    /\ probe = NoProbe
    /\ tagStore = <<>>
    /\ agg = IdleAgg
    /\ usage = NoUsage
    /\ reporter = NoReporter

NextTags ==
    \/ AggStart
    \/ AggPrune
    \/ AggNextTag
    \/ AggSurveyIntro
    \/ AggSurveyArticle
    \/ AggSurveyFinal
    \/ AggFinish

SpecTags == InitTags /\ [][NextTags]_vars

-----------------------------------------------------------------------------
(* Claims checked under SpecTags                                           *)

\* the slugs of the articles whose tag list names the tag
ArticlesTagged(tag) ==
    {articles[k].paper_slug : k \in {m \in 1..Len(articles) :
                                        tag \in Range(articles[m].tags)}}

\* the linking step of the run is behind: the loop over all_tags is reached
Linked == agg.pc \in {"pick", "done"} \/ agg.n > 0

\* process_all_tags_iteratively has returned or raised
RunOver == agg.pc \in {"done", "raised"}

\* C11: no tag's related_paper_slugs holds an article slug twice, also when an
\* article's tag list names the tag twice.
C11_RelatedSlugsAreUnique ==
    \A slug \in DOMAIN tagStore :
        Cardinality(Range(tagStore[slug].related_paper_slugs))
            = Len(tagStore[slug].related_paper_slugs)

\* TAG_SURVEY_THRESHOLD of config.py
TAG_SURVEY_THRESHOLD == 2

SurveyKinds == {"survey_intro", "survey_article", "survey_final"}

\* C12: no survey call is made for a tag with fewer related articles than the
\* threshold of 2, and a run that is over has saved a survey for every tag
\* with two.
C12_SurveyNeedsThreshold ==
    /\ \A p \in 1..Len(agg.log) :
          agg.log[p].kind \in SurveyKinds =>
              Cardinality(Range(tagStore[agg.log[p].tag].related_paper_slugs))
                  >= TAG_SURVEY_THRESHOLD
    /\ RunOver =>
          \A tag \in agg.vocab :
              Cardinality(ArticlesTagged(tag)) >= TAG_SURVEY_THRESHOLD =>
                  Exists(CurFS, Dir(TAGS_DIR, tag), TAG_SURVEY_MD_FILE)

\* C13: after an aggregation run every tag of the final vocabulary is
\* related to exactly the articles whose reconciled tag list names it.
C13_RelationMatchesTagLists ==
    RunOver =>
        \A tag \in agg.vocab :
            /\ tag \in DOMAIN tagStore
            /\ Range(tagStore[tag].related_paper_slugs) = ArticlesTagged(tag)

\* C30: the call for a related article carries, as its assistant turns, the
\* introduction output and the paragraph generated for every earlier related
\* article of the tag.
C30_ArticleCallSeesEarlierParagraphs ==
    agg.pc = "survey_article" =>
        Turns(agg.sent, "assistant")
            = Turns(agg.all_prompts, "assistant") \o agg.article_infos

IsPrefix(s, t) == Len(s) <= Len(t) /\ SubSeq(t, 1, Len(s)) = s

\* C32: every entry of the registry is stored under its own tag_slug, so
\* there is one entry per slug; an entry, once registered, stays, and a
\* lookup of a registered slug returns it as it is: its description and
\* survey are not loaded again and its related_paper_slugs are not reset.
C32_OneEntryPerSlug ==
    [][/\ \A k \in DOMAIN tagStore' : tagStore'[k].tag_slug = k
       /\ \A k \in DOMAIN tagStore :
             /\ k \in DOMAIN tagStore'
             /\ tagStore'[k].name = tagStore[k].name
             /\ IsPrefix(tagStore[k].related_paper_slugs,
                         tagStore'[k].related_paper_slugs)
             /\ agg.pc = "pick" => tagStore'[k] = tagStore[k]]_vars

\* a registered tag that has related articles has been looked up again
C32_Witness ==
    /\ agg.pc = "survey_intro"
    /\ agg.cur \in DOMAIN tagStore
    /\ Len(tagStore[agg.cur].related_paper_slugs) = MaxArticles
    /\ Cardinality(DOMAIN tagStore) > 1

\* C37: in the linking step every tag of every article's tag list is a key
\* of the registry, so no article fails to be linked for a missing key.
C37_EveryTagIsRegistered ==
    /\ agg.raised # "KeyError"
    /\ Linked =>
          \A k \in 1..Len(articles) :
              \A n \in 1..Len(articles[k].tags) :
                  articles[k].tags[n] \in DOMAIN tagStore

-----------------------------------------------------------------------------
(* SpecPure: slugify and cosine_similarity applied to drawn arguments      *)

MaxLen   == 4
VecDim   == 2
MaxCoord == 1

\* a letter of each case, whitespace, the hyphen, the underscore, punctuation
TextChars == {"a", "B", " ", "-", "_", "!"}
Texts == UNION {[1..n -> TextChars] : n \in 0..MaxLen}
Vecs  == {Array(a) : a \in [1..VecDim -> (0 - MaxCoord)..MaxCoord]} \cup {NoVec}

\* the texts get_embedding is tried on: empty, whitespace only, a text
EmbedTexts == {"", "   ", OldText}

TextInput(text)    == [NoProbe EXCEPT !.op = "text", !.text = text]
QueryInput(text)   == [NoProbe EXCEPT !.op = "query", !.query = text]
VecInput(v1, v2)   == [NoProbe EXCEPT !.op = "vectors", !.vec1 = v1, !.vec2 = v2]

CallSlugify ==
    /\ probe.op = "text"
    /\ probe' = [probe EXCEPT !.op = "slugify", !.slug = slugify(probe.text)]
    /\ UNCHANGED <<cfg, usage, reporter, fsVars, storeRes, pipeVars, gateVars, tagVars>>

CallCosine ==
    /\ probe.op = "vectors"
    /\ probe' = [probe EXCEPT !.op = "cosine",
                              !.sim = cosine_similarity(probe.vec1, probe.vec2)]
    /\ UNCHANGED <<cfg, usage, reporter, fsVars, storeRes, pipeVars, gateVars, tagVars>>

\* a vector with the same number in every coordinate, and the first axis
Const(c) == [i \in 1..VecDim |-> c]
Axis     == [i \in 1..VecDim |-> IF i = 1 THEN 1 ELSE 0]

\* the embeddings of corpus entries: none, the zero vector, and vectors
\* along, across and against Const(1)
CorpusVecs ==
    {NoVec, Array(Const(0)), Array(Const(1)), Array(Axis), Array(Const(0 - 1))}

\* corpora of up to two entries; the k-th entry's text names its place
EntryText(k) == <<"entry", IF k = 1 THEN "1" ELSE "2">>
Corpora ==
    UNION {{[k \in 1..n |-> [content |-> EntryText(k), vector |-> vs[k]]] :
               vs \in [1..n -> CorpusVecs]} : n \in 0..2}

RankInput(q, items, top_k) ==
    [NoProbe EXCEPT !.op = "corpus", !.vec1 = q, !.items = items, !.top_k = top_k]

CallFindSimilar ==
    /\ probe.op = "corpus"
    /\ probe' = [probe EXCEPT !.op = "find_similar_content",
                              !.similar = find_similar_content(
                                              probe.vec1, probe.items, probe.top_k)]
    /\ UNCHANGED <<cfg, usage, reporter, fsVars, storeRes, pipeVars, gateVars, tagVars>>

-----------------------------------------------------------------------------
(* Prompt files and their include directives (prompt_helpers.py)           *)

\* a prompt text is a sequence of pieces: a character, or a directive
\* "<!-- INCLUDE: file -->" (PROMPT_INCLUDE_PATTERN) naming a file
Char(c)       == [inc |-> FALSE, v |-> c]
Include(file) == [inc |-> TRUE, v |-> file]
Newline       == Char("\n")

\* re.search: the place of the first directive, 0 if there is none
FirstInclude(text) ==
    IF \E i \in 1..Len(text) : text[i].inc
    THEN CHOOSE i \in 1..Len(text) :
             text[i].inc /\ \A j \in 1..(i - 1) : ~text[j].inc
    ELSE 0

IsSpace(piece) == ~piece.inc /\ piece.v \in {" ", "\n"}

RECURSIVE LStripText(_)
LStripText(text) ==
    IF text # <<>> /\ IsSpace(Head(text)) THEN LStripText(Tail(text)) ELSE text

RECURSIVE RStripText(_)
RStripText(text) ==
    IF text # <<>> /\ IsSpace(text[Len(text)])
    THEN RStripText(SubSeq(text, 1, Len(text) - 1)) ELSE text

\* str.strip()
StripText(text) == RStripText(LStripText(text))

\* what a call returns or raises, and LOADED_CACHE after it
Loaded(text, cache)   == [raised |-> "none", text |-> text, cache |-> cache]
Raising(error, cache) == [raised |-> error, text |-> <<>>, cache |-> cache]

RECURSIVE preprocess_includes(_, _, _, _, _)
RECURSIVE load_prompt(_, _, _, _)

\* _preprocess_includes, lines 10-33; depth is the room left on the
\* interpreter's stack, in nested load_prompt calls
preprocess_includes(files, cache, text, searched, depth) ==
    LET match == FirstInclude(text)
    IN  IF match = 0 THEN Loaded(text, cache)
        ELSE LET file_name == text[match].v
             IN  IF \E i \in 1..Len(searched) : searched[i] = file_name
                 THEN Raising("ValueError", cache)
                 ELSE LET included == load_prompt(files, cache, file_name, depth)
                          again    == preprocess_includes(
                                          files, included.cache, included.text,
                                          Append(searched, file_name), depth)
                          front    == StripText(SubSeq(text, 1, match - 1))
                          middle   == StripText(again.text)
                          back     == StripText(SubSeq(text, match + 1, Len(text)))
                      IN  IF included.raised # "none" THEN included
                          ELSE IF again.raised # "none" THEN again
                          ELSE preprocess_includes(
                                   files, again.cache,
                                   front \o <<Newline>> \o middle \o <<Newline>> \o back,
                                   searched, depth)

\* load_prompt with _load_content_actual, lines 36-54: the file is read and
\* preprocessed with a new "searched" list, and cached once that is done
load_prompt(files, cache, path, depth) ==
    IF path \in DOMAIN cache THEN Loaded(cache[path], cache)
    ELSE IF path \notin DOMAIN files THEN Raising("FileNotFoundError", cache)
    ELSE IF depth = 0 THEN Raising("RecursionError", cache)
    ELSE LET r == preprocess_includes(files, cache, files[path], <<>>, depth - 1)
         IN  IF r.raised # "none" THEN r
             ELSE Loaded(r.text,
                         [f \in DOMAIN r.cache \cup {path} |->
                             IF f = path THEN r.text ELSE r.cache[f]])

MaxPieces == 2
MaxDepth  == 3

\* the prompt files of a catalogue; "C" is a name no catalogue holds
PromptNames  == {"A", "B"}
PromptPieces == {Char("p"), Char(" "), Include("A"), Include("B"), Include("C")}
PromptTexts  == UNION {[1..n -> PromptPieces] : n \in 0..MaxPieces}
Catalogues   == [PromptNames -> PromptTexts]

PromptInput(files) == [NoProbe EXCEPT !.op = "prompts", !.prompts = files]

\* load_prompt("A") in a new process: LOADED_CACHE is empty
CallLoadPrompt ==
    LET r == load_prompt(probe.prompts, <<>>, "A", MaxDepth)
    IN  /\ probe.op = "prompts"
        /\ probe' = [probe EXCEPT !.op = "load_prompt",
                                  !.loaded = [raised |-> r.raised, text |-> r.text]]
        /\ UNCHANGED <<cfg, usage, reporter, fsVars, storeRes, pipeVars, gateVars,
                       tagVars>>

MaxChunks == 3

\* the chunks a stream is made of: two content deltas, a reasoning delta, a
\* delta with empty content, the usage chunk (no choices), a chunk with neither
StreamChunks ==
    {Chunk(NoChunkUsage, <<Delta(TextOf(<<"x">>), Absent)>>),
     Chunk(NoChunkUsage, <<Delta(TextOf(<<"y", "z">>), Absent)>>),
     Chunk(NoChunkUsage, <<Delta(Absent, TextOf(<<"r">>))>>),
     Chunk(NoChunkUsage, <<Delta(TextOf(<<>>), Absent)>>),
     Chunk(ChunkUsage(ReplyUsage), <<>>),
     Chunk(NoChunkUsage, <<>>)}
Streams == UNION {[1..n -> StreamChunks] : n \in 0..MaxChunks}

StreamInput(stream) == [NoProbe EXCEPT !.op = "chunks", !.chunks = stream]

\* generate_completion_streaming ("sync"), one step since it awaits
\* nothing, or agenerate_completion_streaming ("astream") up to the await of
\* line 274: the slot taken (249), the call counted (267-269), the request
\* sent
CallStream(path) ==
    /\ probe.op = "chunks"
    /\ IF path = "sync"
       THEN \E r \in {StreamingCall(usage, path, probe.chunks)} :
               /\ probe' = [probe EXCEPT !.op = "stream", !.path = path,
                                         !.returned = r.value]
               /\ usage' = r.usage
               /\ UNCHANGED <<sem, waiters>>
       ELSE /\ probe' = [probe EXCEPT !.op = "requested", !.path = path]
            /\ usage' = CountCall(usage, MODEL_DEFAULT)
            /\ SetSem(Taken(CurSem))
    /\ UNCHANGED <<cfg, reporter, fsVars, storeRes, pipeVars, caller, loopOwner,
                   tagVars>>

\* the stream comes in, lines 284-305: "async for" changes locals only, the
\* tokens are added, panel_content is returned and the slot given back as
\* "async with" ends (249)
StreamArrives ==
    /\ probe.op = "requested"
    /\ \E r \in {StreamedReply(usage, probe.path, probe.chunks)} :
          /\ probe' = [probe EXCEPT !.op = "stream", !.returned = r.value]
          /\ usage' = r.usage
    /\ SetSem(Release(CurSem))
    /\ UNCHANGED <<cfg, reporter, fsVars, storeRes, pipeVars, caller, loopOwner,
                   tagVars>>

CallEmbedding(eo) ==
    /\ probe.op = "query"
    /\ probe' = [probe EXCEPT !.op = "get_embedding",
                              !.vector = get_embedding(probe.query, eo),
                              !.requests = EmbeddingRequests(probe.query)]
    /\ usage' = CountEmbedding(usage, probe.query, eo)
    /\ UNCHANGED <<cfg, reporter, fsVars, storeRes, pipeVars, gateVars, tagVars>>

InitPure ==
    /\ cfg = DefaultCfg
    /\ fsRoots = {}
    /\ fsDirs = {}
    /\ fsFiles = EmptyFiles
    /\ storeRes = NoStoreRes
    /\ task = <<>>
    /\ mainPc = "idle"
    /\ mainRes = "none"
    /\ faults = 0
    /\ sem = SemaphoreSlots(cfg.maxConcurrent)
    /\ waiters = <<>>
    /\ caller = <<>>
    /\ loopOwner = 0
    /\ probe \in {TextInput(t) : t \in Texts}
                 \cup {VecInput(v1, v2) : v1 \in Vecs, v2 \in Vecs}
                 \cup {QueryInput(t) : t \in EmbedTexts}
                 \cup {RankInput(q, items, top_k) :
                          q \in {Array(Const(1)), NoVec}, items \in Corpora,
                          top_k \in {1, 2}}
                 \cup {StreamInput(stream) : stream \in Streams}
                 \cup {PromptInput(files) : files \in Catalogues}
    /\ articles = <<>>
    /\ tagStore = <<>>
    /\ agg = IdleAgg
    /\ usage = NoUsage
    /\ reporter = NoReporter

NextPure ==
    \/ CallSlugify
    \/ CallCosine
    \/ \E eo \in EmbOutcomes : CallEmbedding(eo)
    \/ CallFindSimilar
    \/ \E path \in {"sync", "astream"} : CallStream(path)
    \/ StreamArrives
    \/ CallLoadPrompt

SpecPure == InitPure /\ [][NextPure]_vars

-----------------------------------------------------------------------------
(* Claims checked under SpecPure                                           *)

\* the characters slugify has no use for: whitespace, hyphens, punctuation
NoWordChar(text) == \A i \in 1..Len(text) : ~IsWord(text[i])

\* the description of the slug, position by position: a character of the
\* lowered text stays if it is a word character or a hyphen, the first
\* character of a whitespace run stays as a hyphen, everything else goes
StaysAt(text, i) ==
    \/ SlugKeep(text[i])
    \/ text[i] \in Spaces /\ (i = 1 \/ text[i - 1] \notin Spaces)

ShownAt(text, i) == IF text[i] \in Spaces THEN "-" ELSE Lower(text[i])

\* the positions that stay and are not part of the leading or trailing hyphens
Core(text) ==
    {i \in 1..Len(text) :
        /\ StaysAt(text, i)
        /\ \E j \in 1..i : StaysAt(text, j) /\ ShownAt(text, j) # "-"
        /\ \E j \in i..Len(text) : StaysAt(text, j) /\ ShownAt(text, j) # "-"}

\* the k-th smallest element of a set of positions
RECURSIVE Nth(_, _)
Nth(S, k) ==
    LET m == CHOOSE x \in S : \A y \in S : x <= y
    IN  IF k = 1 THEN m ELSE Nth(S \ {m}, k - 1)

Described(text) ==
    [k \in 1..Cardinality(Core(text)) |-> ShownAt(text, Nth(Core(text), k))]

\* C18: slugify gives the sentinel "untitled" for an input of which nothing
\* survives, and for any other input the lowered text with every whitespace
\* run as one hyphen, the disallowed characters removed and the hyphens at
\* both ends trimmed.
C18_SlugifyAsDescribed ==
    probe.op = "slugify" =>
        /\ NoWordChar(probe.text) => probe.slug = Untitled
        /\ ~NoWordChar(probe.text) => probe.slug = Described(probe.text)

C18_Witness ==
    /\ probe.op = "slugify"
    /\ probe.text = <<"B", " ", " ", "a">>
    /\ probe.slug = <<"b", "-", "a">>

\* the characters a slug may be made of, by C19: lowercase letters, digits
\* and the hyphen
SlugAlphabet == LowerLetters \cup {Untitled[i] : i \in 1..Len(Untitled)} \cup {"-"}

\* C19: every value slugify returns is non-empty, made of lowercase
\* alphanumeric characters and hyphens only, and has no hyphen at either end.
C19_SlugIsFilesystemSafe ==
    probe.op = "slugify" =>
        /\ probe.slug # <<>>
        /\ \A i \in 1..Len(probe.slug) : probe.slug[i] \in SlugAlphabet
        /\ probe.slug[1] # "-"
        /\ probe.slug[Len(probe.slug)] # "-"

\* C20: cosine_similarity is exactly 0.0, with no division evaluated, when
\* an argument is None or has zero norm.
C20_CosineOfNothingIsZero ==
    ( /\ probe.op = "cosine"
      /\ \/ probe.vec1 = NoVec
         \/ probe.vec2 = NoVec
         \/ NormSq(probe.vec1.arr) = 0
         \/ NormSq(probe.vec2.arr) = 0 ) =>
        probe.sim = ZeroFloat

C20_Witness ==
    /\ probe.op = "cosine"
    /\ probe.vec1.some /\ NormSq(probe.vec1.arr) = 0
    /\ probe.vec2.some /\ NormSq(probe.vec2.arr) > 0
    /\ probe.sim = ZeroFloat

\* C22: get_embedding on an empty or whitespace-only text returns None,
\* makes no network request and changes no usage counter.
C22_BlankTextIsNotEmbedded ==
    (probe.op = "get_embedding" /\ Blank(probe.query)) =>
        /\ probe.vector = None
        /\ probe.requests = 0
        /\ usage = NoUsage

C22_Witness ==
    /\ probe.op = "get_embedding"
    /\ probe.query = "   "
    /\ probe.vector = None
    /\ usage = NoUsage

\* the similarity the ranking of C29 gives an entry: 0 when its embedding is
\* absent or zero-norm
RankSim(q, item) == cosine_similarity(q, item.vector)

\* ranked is the top k of the entries of items, by descending similarity to q
IsTopK(ranked, q, items, k) ==
    /\ Len(ranked) = (IF k < Len(items) THEN k ELSE Len(items))
    /\ \E f \in [1..Len(ranked) -> 1..Len(items)] :
          /\ \A i, j \in 1..Len(ranked) : i # j => f[i] # f[j]
          /\ \A i \in 1..Len(ranked) : ranked[i] = items[f[i]]
          /\ \A i, j \in 1..Len(ranked) :
                i < j => ~Less(RankSim(q, ranked[i]), RankSim(q, ranked[j]))
          /\ \A i \in 1..Len(ranked), j \in 1..Len(items) :
                (\A m \in 1..Len(ranked) : f[m] # j) =>
                    ~Less(RankSim(q, ranked[i]), RankSim(q, items[j]))

\* C29: for a query that has an embedding, the lookup ranks the top_k corpus
\* entries by descending cosine similarity, an entry whose embedding is
\* absent or zero-norm taking part with similarity 0.
C29_TopKByDescendingSimilarity ==
    (probe.op = "find_similar_content" /\ probe.vec1.some) =>
        IsTopK(probe.similar, probe.vec1, probe.items, probe.top_k)

\* the content delta a chunk carries, nothing if it carries none
ContentDelta(chunk) ==
    IF chunk.choices # <<>> /\ chunk.choices[1].content.some
    THEN chunk.choices[1].content.text ELSE <<>>

RECURSIVE JoinPieces(_)
JoinPieces(pieces) ==
    IF pieces = <<>> THEN <<>> ELSE Head(pieces) \o JoinPieces(Tail(pieces))

\* C33: the text a streaming call returns is the content deltas of the
\* response joined in arrival order; reasoning deltas and usage-only chunks
\* add nothing to it.
C33_ReturnsContentDeltasInOrder ==
    probe.op = "stream" =>
        probe.returned
            = JoinPieces([i \in 1..Len(probe.chunks) |-> ContentDelta(probe.chunks[i])])

\* two content deltas with a reasoning delta between them have been streamed
C33_Witness ==
    /\ probe.op = "stream"
    /\ probe.path = "astream"
    /\ probe.returned = <<"y", "z", "x">>
    /\ \E i \in 1..Len(probe.chunks) :
          /\ probe.chunks[i].choices # <<>>
          /\ probe.chunks[i].choices[1].reasoning_content.some

\* C39: every usage counter of every model is at least 0 and no gateway
\* call lowers one, also a streamed response without a usage chunk.
C39_CountersNeverDecrease ==
    [][\A m \in Models :
          /\ usage'[m].calls >= usage[m].calls /\ usage'[m].calls >= 0
          /\ usage'[m].prompt >= usage[m].prompt /\ usage'[m].prompt >= 0
          /\ usage'[m].completion >= usage[m].completion
          /\ usage'[m].completion >= 0
          /\ usage'[m].total >= usage[m].total /\ usage'[m].total >= 0]_vars

\* the files a text names in its directives
Included(text) == {text[i].v : i \in {j \in 1..Len(text) : text[j].inc}}

RECURSIVE IncludedBelow(_, _, _)
\* the files reached from a set of files through at most n directives
IncludedBelow(files, S, n) ==
    IF n = 0 THEN {}
    ELSE LET next == UNION {Included(files[f]) : f \in S \cap DOMAIN files}
         IN  next \cup IncludedBelow(files, next, n - 1)

Reached(files, f) == IncludedBelow(files, {f}, Cardinality(DOMAIN files))

\* loading f meets a cycle of directives, and every file it names exists
CyclicPrompt(files, f) ==
    /\ Reached(files, f) \subseteq DOMAIN files
    /\ \E g \in {f} \cup Reached(files, f) : g \in Reached(files, g)

\* C40: loading a prompt whose include directives form a cycle ends with the
\* circular-reference ValueError.
C40_CycleRaisesValueError ==
    (probe.op = "load_prompt" /\ CyclicPrompt(probe.prompts, "A")) =>
        probe.loaded.raised = "ValueError"

=============================================================================
